---- MODULE Spec2Model ----
(***************************************************************************)
(* Financial statement ingestion and benchmark scoring of yorizo_back.     *)
(*                                                                         *)
(* Spec       the statement store under the four upsert operations         *)
(*            (financial_statement_service.py, financials.py).             *)
(* SpecAlign  one batch of period records through upsert_financial_rows'   *)
(*            filter, sort and backfill.                                   *)
(* SpecImport one worksheet through financial_import.parse_local_benchmark *)
(*            and the alignment, applied twice.                            *)
(* SpecReport the statements of a company through company_report's ratios, *)
(*            scores and radar.                                            *)
(***************************************************************************)
EXTENDS Integers, Sequences, FiniteSets, TLC

\* Python's None and "key not in dict" for numeric values (below every amount
\* and every year of the model), and None for an id.
Null == 0 - 1000000
Absent == 0 - 1000001
NoId == "None"

(***************************************************************************)
(* Bounds of the model.                                                    *)
(***************************************************************************)
MaxStatements == 2
MaxRows == 2
MaxBatch == 3

Companies == {"c1"}
Documents == {"d1"}
FiscalYears == {2023, 2024}
Amounts == {1}

VARIABLES
    store,      \* financial_statements table: sequence of rows, index = id
    last,       \* the upsert call that ran last (see Called)
    pc,         \* how far the input has got through its pipeline
    batch,      \* the batch handed to upsert_financial_rows
    normalized, \* the batch after lines 161-171 of upsert_financial_rows
    content,    \* SpecImport: the worksheet parse_local_benchmark reads
    utcnow,     \* SpecImport: datetime.utcnow().year
    realigned,  \* SpecImport: the aligned batch, aligned once more
    financials, \* SpecReport: the statements _load_financials returned
    radar,      \* SpecReport: the periods of the RadarSection
    pdf,        \* SpecParse: the text lines of the PDF
    opens,      \* SpecParse: whether the PDF library can open the file
    unreadable, \* SpecParse: the page whose extract_text() raises, 0 for none
    extracted,  \* SpecParse: the parser that ran and what it returned
    documents,  \* SpecUpload: the documents table
    uploaded,   \* SpecUpload: the outcome of the last upload_document call
    jst_today,  \* SpecBooking: today's date in JST
    experts,    \* SpecBooking: ids of the experts table
    availabilities, \* SpecBooking: the expert_availabilities table
    bookings,   \* SpecBooking: the consultation_bookings table
    reply,      \* SpecBooking: the last request and its response
    conversations, \* SpecChat: the conversations table (the id is the index)
    chat_messages, \* SpecChat: the messages of each conversation, oldest first
    chat_reply, \* SpecChat: the last guided-chat turn and its response
    prompt,     \* SpecBudget: the message list handed to shrink_messages
    budget,     \* SpecBudget: the token_budget
    shrunk,     \* SpecBudget: the returned list
    memos,      \* SpecMemo: the consultation_memos table
    generated,  \* SpecMemo: the number of generate_consultation_memo calls
    memo_reply, \* SpecMemo: the last memo request and its response
    scored,     \* SpecLadder: a raw value, the ladder it went through and its score
    inflight    \* SpecRace: the POST /consultations requests between lookup and commit

storeVars == <<store, last>>
alignVars == <<pc, batch, normalized>>
importVars == <<content, utcnow, realigned>>
reportVars == <<financials, radar>>
parseVars == <<pdf, opens, unreadable, extracted>>
uploadVars == <<documents, uploaded>>
bookingVars == <<jst_today, experts, availabilities, bookings, reply>>
chatVars == <<conversations, chat_messages, chat_reply>>
budgetVars == <<prompt, budget, shrunk>>
memoVars == <<memos, generated, memo_reply>>
ladderVars == <<scored>>
raceVars == <<inflight>>
laterVars == <<ladderVars, raceVars>>
restVars == <<parseVars, uploadVars, bookingVars, chatVars, budgetVars, memoVars, laterVars>>
vars == <<store, last, pc, batch, normalized, content, utcnow, realigned, financials, radar,
          pdf, opens, unreadable, extracted, documents, uploaded,
          jst_today, experts, availabilities, bookings, reply,
          conversations, chat_messages, chat_reply,
          prompt, budget, shrunk,
          memos, generated, memo_reply,
          scored, inflight>>

(***************************************************************************)
(* FinancialStatement rows.  Of the twenty metric columns the model keeps  *)
(* sales (written by every upsert) and previous_sales (written by          *)
(* upsert_financial_rows only); every upsert treats all metric columns     *)
(* with the same loop.                                                     *)
(***************************************************************************)
FINANCIAL_FIELDS == {"sales", "previous_sales"}

FinancialStatement(company_id, fiscal_year, document_id) ==
    [company_id |-> company_id, fiscal_year |-> fiscal_year, document_id |-> document_id,
     sales |-> Null, previous_sales |-> Null]

Ids(st) == 1..Len(st)

\* db.query(FinancialStatement).filter(document_id == d)
ByDocument(st, d) == {i \in Ids(st) : st[i].document_id = d}

\* db.query(FinancialStatement).filter(company_id == c, fiscal_year == fy)
ByCompanyYear(st, c, fy) == {i \in Ids(st) : st[i].company_id = c /\ st[i].fiscal_year = fy}

\* dict.get(key): an absent key reads as None
Get(v) == IF v = Absent THEN Null ELSE v

\* "if field in row and row[field] is not None: setattr(stmt, field, row[field])"
SetIfNotNone(old, new) == IF new \in {Absent, Null} THEN old ELSE new

\* "if field in parsed: setattr(stmt, target_field, parsed[field])"
SetIfPresent(old, new) == IF new = Absent THEN old ELSE new

(***************************************************************************)
(* upsert_financial_rows, lines 161-171: filter, sort and backfill.        *)
(***************************************************************************)
\* normalized = [row for row in rows if row.get("fiscal_year") is not None]
FilterRows(rows) == SelectSeq(rows, LAMBDA r : Get(r.fiscal_year) # Null)

\* sorted(..., key=fiscal_year, reverse=True) is stable: equal years keep their order
RECURSIVE InsertDesc(_, _)
InsertDesc(sorted, r) ==
    IF sorted = <<>> THEN <<r>>
    ELSE IF Head(sorted).fiscal_year >= r.fiscal_year
         THEN <<Head(sorted)>> \o InsertDesc(Tail(sorted), r)
         ELSE <<r>> \o sorted

RECURSIVE SortRows(_)
SortRows(rows) ==
    IF rows = <<>> THEN <<>>
    ELSE InsertDesc(SortRows(SubSeq(rows, 1, Len(rows) - 1)), rows[Len(rows)])

\* a mutant of BackfillSource: the successor's previous_sales is copied
BackfillFromPreviousSales(next) == Get(next.previous_sales)

\* the value line 171 copies into previous_sales
BackfillSource(next) == Get(next.sales)

\* for idx, row: if row.get("previous_sales") is None and idx + 1 < len(normalized)
BackfillRows(rows) ==
    [i \in 1..Len(rows) |->
        IF Get(rows[i].previous_sales) = Null /\ i + 1 <= Len(rows)
        THEN [rows[i] EXCEPT !.previous_sales = BackfillSource(rows[i + 1])]
        ELSE rows[i]]

NormalizeRows(rows) == BackfillRows(SortRows(FilterRows(rows)))

(***************************************************************************)
(* The upsert operations on the store.  Query.first() has no ORDER BY, so  *)
(* among several matching rows any one may be returned.                    *)
(***************************************************************************)
\* lines 173-188 for one row: the stores the loop body can produce
UpsertRow(st, company_id, row) ==
    LET found == ByCompanyYear(st, company_id, row.fiscal_year)
        fill(s) == [s EXCEPT !.sales = SetIfNotNone(@, row.sales),
                             !.previous_sales = SetIfNotNone(@, row.previous_sales)]
    IN  IF found = {}
        THEN {Append(st, fill(FinancialStatement(company_id, row.fiscal_year, NoId)))}
        ELSE {[st EXCEPT ![i] = fill(@)] : i \in found}

RECURSIVE UpsertRows(_, _, _)
UpsertRows(st, company_id, rows) ==
    IF rows = <<>> THEN {st}
    ELSE UNION {UpsertRows(st2, company_id, Tail(rows)) : st2 \in UpsertRow(st, company_id, Head(rows))}

\* the rows a producer (parse_local_benchmark, pdf_financial_parser) hands to
\* upsert_financial_rows: a fiscal year each, no previous_sales key
RowInputs == [fiscal_year : FiscalYears, sales : Amounts \cup {Null}, previous_sales : {Absent}]

BatchInputs == UNION {[1..n -> RowInputs] : n \in 0..MaxRows}

\* the call that ran last: its name, the lookup path it took ("document",
\* "company_year", "created", "returned"), whether the parse behind it gave
\* no metric (an empty dict, an empty batch), and the keys it was called with
Called(op, path, empty, fiscal_year, document_id) ==
    [op |-> op, path |-> path, empty |-> empty,
     fiscal_year |-> fiscal_year, document_id |-> document_id]


\* lines 152-189
upsert_financial_rows(company_id, rows) ==
    /\ \E st2 \in UpsertRows(store, company_id, NormalizeRows(rows)) :
          /\ Len(st2) <= MaxStatements
          /\ store' = st2
    /\ last' = Called("upsert_financial_rows",
                      IF FilterRows(rows) = <<>> THEN "returned" ELSE "company_year",
                      rows = <<>>, Null, NoId)

\* parse_japanese_sme_statement: {} for an unreadable file, else the fiscal
\* year when one was detected and the labelled integers that were found
SmeStatementData == [fiscal_year : FiscalYears \cup {Absent}, sales : Amounts \cup {Absent}]

\* lines 192-218
upsert_from_pdf(company_id, data) ==
    LET fiscal_year == Get(data.fiscal_year)
        found == ByCompanyYear(store, company_id, fiscal_year)
        fill(s) == [s EXCEPT !.sales = SetIfNotNone(@, data.sales)]
    IN  IF fiscal_year = Null
        THEN /\ store' = store
             /\ last' = Called("upsert_from_pdf", "returned", data.sales = Absent, Null, NoId)
        ELSE IF found = {}
        THEN /\ Len(store) < MaxStatements
             /\ store' = Append(store, fill(FinancialStatement(company_id, fiscal_year, NoId)))
             /\ last' = Called("upsert_from_pdf", "created", data.sales = Absent, fiscal_year, NoId)
        ELSE \E i \in found :
             /\ store' = [store EXCEPT ![i] = fill(@)]
             /\ last' = Called("upsert_from_pdf", "company_year", data.sales = Absent, fiscal_year, NoId)

\* parse_financial_pdf of financial_statement_service: {} for an unreadable
\* file or a file without a recognized label, else the labelled numbers
PdfMetrics == [sales : Amounts \cup {Absent}]

\* a mutant of LookupStatement: the (company_id, fiscal_year) lookup runs first
LookupCompanyYearFirst(st, company_id, fiscal_year, document_id) ==
    IF ByCompanyYear(st, company_id, fiscal_year) # {}
    THEN [path |-> "company_year", ids |-> ByCompanyYear(st, company_id, fiscal_year)]
    ELSE IF document_id # NoId /\ ByDocument(st, document_id) # {}
    THEN [path |-> "document", ids |-> ByDocument(st, document_id)]
    ELSE [path |-> "created", ids |-> {Len(st) + 1}]

\* lines 230-244: the statements the two lookups may select, and by which path
LookupStatement(st, company_id, fiscal_year, document_id) ==
    IF document_id # NoId /\ ByDocument(st, document_id) # {}
    THEN [path |-> "document", ids |-> ByDocument(st, document_id)]
    ELSE IF ByCompanyYear(st, company_id, fiscal_year) # {}
    THEN [path |-> "company_year", ids |-> ByCompanyYear(st, company_id, fiscal_year)]
    ELSE [path |-> "created", ids |-> {Len(st) + 1}]

\* lines 221-259
upsert_financial_statements_from_pdf(company_id, fiscal_year, document_id, metrics) ==
    LET fill(s) == [s EXCEPT !.sales = SetIfNotNone(@, metrics.sales)]
        found == LookupStatement(store, company_id, fiscal_year, document_id)
    IN  /\ \E i \in found.ids :
             IF found.path = "created"
             THEN /\ Len(store) < MaxStatements
                  /\ store' = Append(store, fill(FinancialStatement(company_id, fiscal_year, document_id)))
             ELSE store' = [store EXCEPT ![i] =
                               fill([@ EXCEPT !.document_id =
                                        IF document_id # NoId THEN document_id ELSE @])]
        /\ last' = Called("upsert_financial_statements_from_pdf", found.path,
                          metrics.sales = Absent, fiscal_year, document_id)

\* the parsed dict handed to upsert_financial_statement_for_document:
\* Dict[str, Any] whose values are Optional (pdf_financials.ParsedFinancials)
ParsedFinancials ==
    [fiscal_year : FiscalYears \cup {Absent, Null}, sales : Amounts \cup {Absent, Null}]

\* financials.py lines 20-47
upsert_financial_statement_for_document(company_id, document_id, parsed) ==
    LET found == ByDocument(store, document_id)
        fill(s) == [s EXCEPT !.fiscal_year = SetIfPresent(@, parsed.fiscal_year),
                             !.sales = SetIfPresent(@, parsed.sales)]
    IN  /\ IF found = {}
           THEN /\ Len(store) < MaxStatements
                /\ store' = Append(store, fill(FinancialStatement(company_id, Null, document_id)))
           ELSE \E i \in found :
                  store' = [store EXCEPT ![i] = fill([@ EXCEPT !.company_id = company_id])]
        /\ last' = Called("upsert_financial_statement_for_document",
                          IF found = {} THEN "created" ELSE "document",
                          parsed.sales \in {Absent, Null}, Get(parsed.fiscal_year), document_id)

\* the variables of the other specifications, at rest
AlignIdle == pc = "idle" /\ batch = <<>> /\ normalized = <<>>

ImportIdle == content = <<>> /\ utcnow = Null /\ realigned = <<>>

ReportIdle == financials = <<>> /\ radar = <<>>

NotParsed == [parser |-> "none", result |-> <<>>]

ParseIdle == pdf = <<>> /\ opens = TRUE /\ unreadable = 0 /\ extracted = NotParsed

NotUploaded == [status |-> 0, stored |-> FALSE, parse |-> "not_run"]

UploadIdle == documents = <<>> /\ uploaded = NotUploaded

\* dates are counted in days from 2025-11-30: day 24 is 2025-12-24 and day
\* 32 is 2026-01-01
BaseToday == 24

NoReply == [op |-> "none", status |-> 0]

BookingIdle ==
    /\ jst_today = BaseToday
    /\ experts = {}
    /\ availabilities = <<>>
    /\ bookings = <<>>
    /\ reply = NoReply

NoTurn == [status |-> 0]

ChatIdle == conversations = <<>> /\ chat_messages = <<>> /\ chat_reply = NoTurn

BudgetIdle == prompt = <<>> /\ budget = 0 /\ shrunk = <<>>

NoMemoReply == [op |-> "none", status |-> 0]

MemoIdle == memos = <<>> /\ generated = 0 /\ memo_reply = NoMemoReply

NotScored == [ladder |-> "none", score |-> 0]

LadderIdle == scored = NotScored

RaceIdle == inflight = <<>>

LaterIdle == LadderIdle /\ RaceIdle

RestIdle ==
    ParseIdle /\ UploadIdle /\ BookingIdle /\ ChatIdle /\ BudgetIdle /\ MemoIdle /\ LaterIdle

StoreInit ==
    /\ store = <<>>
    /\ last = Called("none", "none", TRUE, Null, NoId)

Init == StoreInit /\ AlignIdle /\ ImportIdle /\ ReportIdle /\ RestIdle

UpsertFinancialRows ==
    \E c \in Companies, rows \in BatchInputs : upsert_financial_rows(c, rows)

UpsertFromPdf ==
    \E c \in Companies, data \in SmeStatementData : upsert_from_pdf(c, data)

UpsertFinancialStatementsFromPdf ==
    \E c \in Companies, fy \in FiscalYears, d \in Documents \cup {NoId}, m \in PdfMetrics :
        upsert_financial_statements_from_pdf(c, fy, d, m)

UpsertFinancialStatementForDocument ==
    \E c \in Companies, d \in Documents, parsed \in ParsedFinancials :
        upsert_financial_statement_for_document(c, d, parsed)

Next ==
    /\ \/ UpsertFinancialRows
       \/ UpsertFromPdf
       \/ UpsertFinancialStatementsFromPdf
       \/ UpsertFinancialStatementForDocument
    /\ UNCHANGED <<alignVars, importVars, reportVars, restVars>>

Spec == Init /\ [][Next]_vars

(***************************************************************************)
(* Claims about the statement store (specification Spec).                  *)
(***************************************************************************)
IngestionOps == {"upsert_financial_rows", "upsert_from_pdf", "upsert_financial_statements_from_pdf"}

\* C1: a metric field of a statement that holds a non-null value is never
\* null after any upsert: incoming null or absent fields leave it unchanged.
C1_NonNullNeverNulled ==
    [][\A i \in Ids(store) :
          /\ store[i].sales # Null => store'[i].sales # Null
          /\ store[i].previous_sales # Null => store'[i].previous_sales # Null]_vars

\* C2: the store holds at most one statement per (company_id, fiscal_year)
\* and at most one per non-null document_id.
C2_OnePerNaturalKey ==
    \A i, j \in Ids(store) :
        i # j =>
            /\ ~(store[i].company_id = store[j].company_id /\ store[i].fiscal_year = store[j].fiscal_year)
            /\ (store[i].document_id # NoId => store[i].document_id # store[j].document_id)

\* the statements C3 allows upsert_financial_statements_from_pdf to update
C3Targets(company_id, fiscal_year, document_id) ==
    LET byDocument == {i \in Ids(store) : document_id # NoId /\ store[i].document_id = document_id}
        byKey == {i \in Ids(store) : store[i].company_id = company_id /\ store[i].fiscal_year = fiscal_year}
    IN  IF byDocument # {} THEN byDocument ELSE byKey

\* C3: upsert_financial_statements_from_pdf updates the statement with the
\* given document_id when there is one, else the statement with the given
\* (company_id, fiscal_year), and creates exactly one statement only when
\* there is neither; every other statement is unchanged.
C3_LookupPrecedence ==
    [][last'.op = "upsert_financial_statements_from_pdf" =>
        \E c \in Companies :
            LET targets == C3Targets(c, last'.fiscal_year, last'.document_id)
            IN  IF targets = {}
                THEN /\ Len(store') = Len(store) + 1
                     /\ \A i \in Ids(store) : store'[i] = store[i]
                     /\ store'[Len(store')].company_id = c
                     /\ store'[Len(store')].fiscal_year = last'.fiscal_year
                     /\ store'[Len(store')].document_id = last'.document_id
                ELSE /\ Len(store') = Len(store)
                     /\ \E t \in targets : \A i \in Ids(store) \ {t} : store'[i] = store[i]]_vars

\* C3 witness: the call found its statement by document_id although another
\* statement holds the (company_id, fiscal_year) it was called with.
C3_Witness ==
    /\ last.op = "upsert_financial_statements_from_pdf"
    /\ last.path = "document"
    /\ \E i, j \in Ids(store) :
          /\ i # j
          /\ store[i].document_id = last.document_id
          /\ store[i].fiscal_year # last.fiscal_year
          /\ store[i].sales # Null
          /\ store[j].fiscal_year = last.fiscal_year
          /\ store[j].document_id = NoId
          /\ store[j].sales = Null

\* C4: an ingestion call whose parse extracted zero usable metrics creates
\* no statement and changes none.
C4_NoMetricsNoStatement ==
    [][(last'.op \in IngestionOps /\ last'.empty) => store' = store]_vars

(***************************************************************************)
(* financial_import.parse_local_benchmark.  A sheet is a sequence of rows  *)
(* of cells; a cell is None, a number or a string.  The strings of the     *)
(* model are written in ASCII:                                             *)
(*   uriagedaka 売上高          kaikakekin 買掛金      fusai_goukei 負債合計 *)
(*   genkin_yokin 現金・預金    urikakekin 売掛金      bikou 備考            *)
(*   2024nen 2024年                                                        *)
(***************************************************************************)
EmptyCell == [kind |-> "none", num |-> 0, text |-> ""]
NumberCell(n) == [kind |-> "number", num |-> n, text |-> ""]
TextCell(t) == [kind |-> "text", num |-> 0, text |-> t]

\* label_map, lines 93-112: keyword -> field
label_map ==
    {<<"uriagedaka", "sales">>,                 \* 売上高
     <<"eigyou_rieki", "operating_profit">>,    \* 営業利益
     <<"keijou_rieki", "ordinary_profit">>,     \* 経常利益
     <<"touki_junrieki", "net_income">>,        \* 当期純利益
     <<"genka_shoukyakuhi", "depreciation">>,   \* 減価償却費
     <<"juugyouin", "employees">>,              \* 従業員
     <<"juugyouinsuu", "employees">>,           \* 従業員数
     <<"genkin", "cash_and_deposits">>,         \* 現金
     <<"genkin_yokin", "cash_and_deposits">>,   \* 現金・預金
     <<"uketori_tegata", "receivables">>,       \* 受取手形
     <<"urikakekin", "receivables">>,           \* 売掛金
     <<"tanaoroshi_shisan", "inventory">>,      \* 棚卸資産
     <<"fusai_goukei", "total_liabilities">>,   \* 負債合計
     <<"kaikakekin", "payables">>,              \* 買掛金
     <<"shiharai_tegata", "payables">>,         \* 支払手形
     <<"kariirekin", "borrowings">>,            \* 借入金
     <<"yuurishi_fusai", "borrowings">>,        \* 有利子負債
     <<"junshisan_goukei", "equity">>}          \* 純資産合計

\* "keyword in cleaned" for the strings of the model: the keywords each
\* string contains once its spaces are removed (line 63-65)
KeywordsIn(text) ==
    CASE text = "uriagedaka" -> {"uriagedaka"}
      [] text = "kaikakekin" -> {"kaikakekin"}
      [] text = "fusai_goukei" -> {"fusai_goukei"}
      [] text = "genkin_yokin" -> {"genkin", "genkin_yokin"}
      [] text = "urikakekin" -> {"urikakekin"}
      [] OTHER -> {}

\* cell.replace("年", "").strip() when it is all digits, else None (lines 38-39)
DigitsOf(text) == IF text = "2024nen" THEN 2024 ELSE Null

\* float(cleaned) of a string cell, None when float() raises (lines 20-27)
FloatOf(text) == Null

\* lines 35-40 and 127-134: the year a cell shows, None when it shows none
YearOfCell(cell) ==
    IF cell.kind = "number"
    THEN IF 2000 <= cell.num /\ cell.num <= 2100 THEN cell.num ELSE Null
    ELSE IF cell.kind = "text"
    THEN IF DigitsOf(cell.text) # Null /\ 2000 <= DigitsOf(cell.text) /\ DigitsOf(cell.text) <= 2100
         THEN DigitsOf(cell.text) ELSE Null
    ELSE Null

\* _to_number, lines 16-27
_to_number(cell) ==
    IF cell.kind = "none" THEN Null
    ELSE IF cell.kind = "text" THEN FloatOf(cell.text)
    ELSE cell.num

\* the ascending sequence of the members of a set of indices
RECURSIVE Ascending(_)
Ascending(S) ==
    IF S = {} THEN <<>>
    ELSE LET m == CHOOSE x \in S : \A y \in S : x <= y
         IN  <<m>> \o Ascending(S \ {m})

YearCandidates(row) == {c \in 1..Len(row) : YearOfCell(row[c]) # Null}

\* _find_year_columns, lines 30-47; columns count from 1 here, so the
\* fallback range(1, 4) is <<2, 3, 4>>
_find_year_columns(sheet) ==
    LET yearRows == {r \in 1..Len(sheet) : YearCandidates(sheet[r]) # {}}
    IN  IF yearRows = {} THEN <<2, 3, 4>>
        ELSE Ascending(YearCandidates(sheet[CHOOSE r \in yearRows : \A q \in yearRows : r <= q]))

FieldsOfRow(row) ==
    {kf[2] : kf \in {kf \in label_map :
        \E c \in 1..Len(row) : row[c].kind = "text" /\ kf[1] \in KeywordsIn(row[c].text)}}

\* _find_label_rows, lines 57-67: the first row that names each field
_find_label_rows(sheet) ==
    LET found == UNION {FieldsOfRow(sheet[r]) : r \in 1..Len(sheet)}
    IN  [f \in found |-> CHOOSE r \in 1..Len(sheet) :
            /\ f \in FieldsOfRow(sheet[r])
            /\ \A q \in 1..(r - 1) : f \notin FieldsOfRow(sheet[q])]

\* lines 122-135: rows[:5] are searched
YearScanRows == 5

YearOfColumn(sheet, col) ==
    LET hits == {r \in 1..Len(sheet) :
                    r <= YearScanRows /\ col <= Len(sheet[r]) /\ YearOfCell(sheet[r][col]) # Null}
    IN  IF hits = {} THEN Null
        ELSE YearOfCell(sheet[CHOOSE r \in hits : \A q \in hits : r <= q][col])

\* _build_years, lines 84-86
_build_years(col_indices, current_year) ==
    [i \in 1..Len(col_indices) |-> current_year - (i - 1)]

\* lines 119-137
YearValues(sheet, year_cols, current_year) ==
    LET read == [i \in 1..Len(year_cols) |-> YearOfColumn(sheet, year_cols[i])]
    IN  IF \E i \in 1..Len(year_cols) : read[i] = Null
        THEN _build_years(year_cols, current_year)
        ELSE read

\* _collect_values for one column, lines 70-81
CellValue(sheet, row_idx, col) ==
    IF col <= Len(sheet[row_idx]) THEN _to_number(sheet[row_idx][col]) ELSE Null

EntryFields ==
    {"fiscal_year", "previous_sales", "current_assets", "current_liabilities"}
    \cup {kf[2] : kf \in label_map}

\* "x.get(k) or 0"
OrZero(v) == IF v \in {Absent, Null} THEN 0 ELSE v

\* dict.setdefault(k, v)
SetDefault(old, v) == IF old = Absent THEN v ELSE old

\* a mutant of DeriveTotalLiabilities: payables are added to the total
AddPayables(old, payables) == OrZero(old) + payables

\* lines 155-157: "if total_liabilities is None and payables"
DeriveTotalLiabilities(old, payables) ==
    IF Get(old) = Null /\ payables # 0 THEN payables ELSE old

\* lines 150-159 for one entry
DeriveEntry(entry) ==
    LET receivables == OrZero(entry.receivables)
        inventory == OrZero(entry.inventory)
        cash == OrZero(entry.cash_and_deposits)
        payables == OrZero(entry.payables)
    IN  [entry EXCEPT
            !.total_liabilities = DeriveTotalLiabilities(@, payables),
            !.current_assets = SetDefault(@, cash + receivables + inventory),
            !.current_liabilities = SetDefault(@, IF payables # 0 THEN payables ELSE Null)]

DeriveEntries(entries) == [i \in 1..Len(entries) |-> DeriveEntry(entries[i])]

\* lines 139-147: one entry per year column, the labelled rows' values
CollectEntries(sheet, year_cols, year_values, label_rows) ==
    [i \in 1..Len(year_cols) |->
        [f \in EntryFields |->
            IF f = "fiscal_year" THEN year_values[i]
            ELSE IF f \in DOMAIN label_rows THEN CellValue(sheet, label_rows[f], year_cols[i])
            ELSE Absent]]

\* parse_local_benchmark, lines 89-160
parse_local_benchmark(sheet, current_year) ==
    LET year_cols == _find_year_columns(sheet)
        label_rows == _find_label_rows(sheet)
    IN  IF DOMAIN label_rows = {} THEN <<>>
        ELSE DeriveEntries(CollectEntries(sheet, year_cols,
                                          YearValues(sheet, year_cols, current_year), label_rows))

(***************************************************************************)
(* company_report.py: the ratios of one statement and their scores.  A     *)
(* float ratio is kept exact as num/den with den > 0; None is NoRatio.     *)
(***************************************************************************)
NoRatio == [num |-> 0, den |-> 0]
Ratio(num, den) == [num |-> num, den |-> den]
IsNone(raw) == raw.den = 0

\* raw >= k and raw <= k for a ratio that is not None
AtLeast(raw, k) == raw.num >= k * raw.den
AtMost(raw, k) == raw.num <= k * raw.den

\* _safe_div, lines 70-78
_safe_div(num, den) ==
    IF num = Null \/ den = Null \/ den = 0 THEN NoRatio
    ELSE IF den > 0 THEN Ratio(num, den) ELSE Ratio(0 - num, 0 - den)

\* lines 101-105
calc_sales_sustainability(current_sales, prev_sales) ==
    IF current_sales = Null \/ prev_sales = Null \/ prev_sales <= 0 THEN NoRatio
    ELSE Ratio((current_sales - prev_sales) * 100, prev_sales)

\* lines 108-112
calc_profitability(operating_profit, sales) ==
    IF operating_profit = Null \/ sales = Null \/ sales <= 0 THEN NoRatio
    ELSE Ratio(operating_profit * 100, sales)

\* lines 115-128
calc_soundness_years(interest_bearing_debt, operating_profit, depreciation, net_income) ==
    LET debt == interest_bearing_debt
        cf == OrZero(net_income) + OrZero(depreciation)
    IN  IF debt = Null \/ debt <= 0 THEN NoRatio
        ELSE IF cf <= 0 THEN NoRatio
        ELSE _safe_div(debt, cf)

\* lines 131-144
calc_working_capital_months(receivables, inventory, payables, sales) ==
    IF sales = Null \/ sales <= 0 THEN NoRatio
    ELSE LET working_capital == OrZero(receivables) + OrZero(inventory) - OrZero(payables)
         IN  IF working_capital * 12 < 0 THEN Ratio(0, 1)
             ELSE Ratio(working_capital * 12, sales)

\* lines 147-152
calc_equity_ratio_pct(equity, total_assets) ==
    IF equity = Null \/ total_assets = Null \/ total_assets <= 0 THEN NoRatio
    ELSE Ratio(equity * 100, total_assets)

\* lines 155-166
score_sales_growth(pct) ==
    IF IsNone(pct) THEN Null
    ELSE IF AtLeast(pct, 10) THEN 5
    ELSE IF AtLeast(pct, 5) THEN 4
    ELSE IF AtLeast(pct, 0) THEN 3
    ELSE IF AtLeast(pct, 0 - 10) THEN 2
    ELSE 1

\* lines 169-180
score_profit_margin(pct) ==
    IF IsNone(pct) THEN Null
    ELSE IF AtLeast(pct, 10) THEN 5
    ELSE IF AtLeast(pct, 5) THEN 4
    ELSE IF AtLeast(pct, 0) THEN 3
    ELSE IF AtLeast(pct, 0 - 5) THEN 2
    ELSE 1

\* lines 183-194; borrowings and ebitda are not read
score_debt_years(years, borrowings, ebitda) ==
    IF IsNone(years) THEN 3
    ELSE IF AtMost(years, 0) THEN 5
    ELSE IF AtMost(years, 3) THEN 4
    ELSE IF AtMost(years, 5) THEN 3
    ELSE IF AtMost(years, 7) THEN 2
    ELSE 1

\* lines 197-208
score_working_capital_months(months) ==
    IF IsNone(months) THEN 3
    ELSE IF AtMost(months, 1) THEN 5
    ELSE IF AtMost(months, 2) THEN 4
    ELSE IF AtMost(months, 3) THEN 3
    ELSE IF AtMost(months, 4) THEN 2
    ELSE 1

\* lines 211-222
score_equity_ratio(pct) ==
    IF IsNone(pct) THEN 3
    ELSE IF AtLeast(pct, 30) THEN 5
    ELSE IF AtLeast(pct, 20) THEN 4
    ELSE IF AtLeast(pct, 10) THEN 3
    ELSE IF AtLeast(pct, 0) THEN 2
    ELSE 1

\* AXES, line 31: 売上持続性, 収益性, 健全性, 効率性, 安全性
AXES == <<"uriage_jizokusei", "shuuekisei", "kenzensei", "kouritsusei", "anzensei">>

\* lines 301 and 305-307: the prior sales and the debt _compute_kpis uses
ResolvedPreviousSales(stmt, prev_sales) ==
    IF prev_sales # Null THEN prev_sales ELSE stmt.previous_sales

ResolvedBorrowings(stmt) ==
    IF stmt.interest_bearing_debt # Null THEN stmt.interest_bearing_debt ELSE stmt.borrowings

KPI(key, raw, score) == [key |-> key, raw |-> raw, score |-> score]

\* _compute_kpis, lines 299-368 (label, unit and value_display are left out)
_compute_kpis(stmt, prev_sales) ==
    LET previous_sales == ResolvedPreviousSales(stmt, prev_sales)
        borrowings == ResolvedBorrowings(stmt)
        raw_sales_growth == calc_sales_sustainability(stmt.sales, previous_sales)
        raw_profitability == calc_profitability(stmt.operating_profit, stmt.sales)
        raw_soundness == calc_soundness_years(borrowings, stmt.operating_profit,
                                              stmt.depreciation, stmt.net_income)
        raw_efficiency == calc_working_capital_months(stmt.receivables, stmt.inventory,
                                                      stmt.payables, stmt.sales)
        raw_safety == calc_equity_ratio_pct(stmt.equity, stmt.total_assets)
    IN  <<KPI("sales_sustainability", raw_sales_growth, score_sales_growth(raw_sales_growth)),
          KPI("profitability", raw_profitability, score_profit_margin(raw_profitability)),
          KPI("soundness", raw_soundness,
              score_debt_years(raw_soundness, borrowings,
                               OrZero(stmt.net_income) + OrZero(stmt.depreciation))),
          KPI("efficiency", raw_efficiency, score_working_capital_months(raw_efficiency)),
          KPI("safety", raw_safety, score_equity_ratio(raw_safety))>>

\* line 375: the sales of the next statement of the list, None for the last
PrevSales(stmts, idx) == IF idx + 1 <= Len(stmts) THEN stmts[idx + 1].sales ELSE Null

\* line 387: "float(s) if s is not None else 0.0"
RadarScore(score) == IF score = Null THEN 0 ELSE score

\* _build_radar, lines 371-392 (the period label is left out)
_build_radar(stmts) ==
    [idx \in 1..Len(stmts) |->
        LET kpis == _compute_kpis(stmts[idx], PrevSales(stmts, idx))
        IN  [scores |-> [k \in 1..Len(kpis) |-> RadarScore(kpis[k].score)],
             raw_values |-> [k \in 1..Len(kpis) |-> kpis[k].raw],
             kpis |-> kpis]]

(***************************************************************************)
(* Text of a PDF.  A line is a sequence of characters; a character is a    *)
(* string of the model:                                                    *)
(*   "0".."9"  ","  "-"  "("  ")"  " "    themselves                       *)
(*   "FW0".."FW9"  full-width digits ０..９       "FW,"  full-width comma ， *)
(*   "FW-"  full-width hyphen-minus －           "MINUS"  minus sign −     *)
(*   "WTRI"  △        "BTRI"  ▲        "YEN"  円                           *)
(* and a label such as 売上高 is one character, written in romaji.  The     *)
(* lines of the model hold no decimal point.                               *)
(***************************************************************************)
AsciiDigits == {"0", "1", "2", "3", "4", "5", "6", "7", "8", "9"}
FullWidthDigits == {"FW0", "FW1", "FW2", "FW3", "FW4", "FW5", "FW6", "FW7", "FW8", "FW9"}

\* \d of a Python str pattern matches every Unicode decimal digit
UnicodeDigits == AsciiDigits \cup FullWidthDigits

\* the digit a character stands for; Decimal(), int() and float() read
\* full-width digits like ASCII ones
DigitValue(c) ==
    CASE c \in {"0", "FW0"} -> 0 [] c \in {"1", "FW1"} -> 1 [] c \in {"2", "FW2"} -> 2
      [] c \in {"3", "FW3"} -> 3 [] c \in {"4", "FW4"} -> 4 [] c \in {"5", "FW5"} -> 5
      [] c \in {"6", "FW6"} -> 6 [] c \in {"7", "FW7"} -> 7 [] c \in {"8", "FW8"} -> 8
      [] c \in {"9", "FW9"} -> 9

\* unicodedata.normalize("NFKC", c): full-width forms become ASCII; △, ▲
\* and − have no compatibility mapping
NFKC(c) ==
    CASE c \in FullWidthDigits ->
            CHOOSE d \in AsciiDigits : DigitValue(d) = DigitValue(c)
      [] c = "FW," -> ","
      [] c = "FW-" -> "-"
      [] OTHER -> c

\* str.replace(old, "") for a one-character old
Remove(text, old) == SelectSeq(text, LAMBDA c : c # old)

\* str.replace(old, new) for one-character old and new
Replace(text, old, new) == [i \in 1..Len(text) |-> IF text[i] = old THEN new ELSE text[i]]

\* the last index k >= from - 1 with text[from..k] all in class
RunEnd(text, from, class) ==
    LET ends == {k \in (from - 1)..Len(text) : \A m \in from..k : text[m] \in class}
    IN  CHOOSE k \in ends : \A e \in ends : e <= k

\* the value of a string of digits
RECURSIVE DigitsValue(_)
DigitsValue(digits) ==
    IF digits = <<>> THEN 0
    ELSE 10 * DigitsValue(SubSeq(digits, 1, Len(digits) - 1)) + DigitValue(digits[Len(digits)])

\* Decimal(s), int(s), float(s) for s without a decimal point: an optional
\* sign and one or more digits, None (the exception) for any other string
NumberOf(s) ==
    LET signed == s # <<>> /\ s[1] \in {"+", "-"}
        digits == IF signed THEN Tail(s) ELSE s
    IN  IF digits = <<>> \/ \E i \in 1..Len(digits) : digits[i] \notin UnicodeDigits THEN Null
        ELSE IF signed /\ s[1] = "-" THEN 0 - DigitsValue(digits)
        ELSE DigitsValue(digits)

(***************************************************************************)
(* financial_statement_service.py: _parse_number and parse_financial_pdf.  *)
(***************************************************************************)
\* the end of the match of [+-]?\d[\d,]*\.?\d* that starts at i, 0 for none
ServiceTokenEnd(text, i) ==
    LET first == IF text[i] \in {"+", "-"} THEN i + 1 ELSE i
    IN  IF first > Len(text) \/ text[first] \notin UnicodeDigits THEN 0
        ELSE LET body == RunEnd(text, first + 1, UnicodeDigits \cup {","})
                 point == IF body + 1 <= Len(text) /\ text[body + 1] = "." THEN body + 1 ELSE body
             IN  RunEnd(text, point + 1, UnicodeDigits)

\* re.findall(r"[+-]?\d[\d,]*\.?\d*", text) from position i on
RECURSIVE ServiceCandidates(_, _)
ServiceCandidates(text, i) ==
    IF i > Len(text) THEN <<>>
    ELSE IF ServiceTokenEnd(text, i) = 0 THEN ServiceCandidates(text, i + 1)
    ELSE <<SubSeq(text, i, ServiceTokenEnd(text, i))>>
         \o ServiceCandidates(text, ServiceTokenEnd(text, i) + 1)

\* _parse_number, lines 46-61
ServiceParseNumber(text) ==
    LET candidates == ServiceCandidates(text, 1)
    IN  IF candidates = <<>> THEN Null
        ELSE NumberOf(Remove(candidates[Len(candidates)], ","))

\* label_map of parse_financial_pdf, lines 74-89, in dict order
ServiceLabelMap ==
    <<<<"uriagedaka", "sales">>,                        \* 売上高
      <<"eigyou_rieki", "operating_profit">>,           \* 営業利益
      <<"keijou_rieki", "ordinary_profit">>,            \* 経常利益
      <<"touki_junrieki", "net_income">>,               \* 当期純利益
      <<"genka_shoukyakuhi", "depreciation">>,          \* 減価償却費
      <<"ryuudou_shisan_goukei", "current_assets">>,    \* 流動資産合計
      <<"ryuudou_fusai_goukei", "current_liabilities">>, \* 流動負債合計
      <<"kotei_shisan_goukei", "fixed_assets">>,        \* 固定資産合計
      <<"shisan_goukei", "total_assets">>,              \* 資産合計
      <<"junshisan_goukei", "equity">>,                 \* 純資産合計
      <<"kabunushi_shihon_goukei", "equity">>,          \* 株主資本合計
      <<"fusai_goukei", "total_liabilities">>,          \* 負債合計
      <<"tanki_kariirekin", "borrowings">>,             \* 短期借入金
      <<"chouki_kariirekin", "borrowings">>>>           \* 長期借入金

ServiceKeys == {ServiceLabelMap[i][2] : i \in DOMAIN ServiceLabelMap} \cup {"interest_bearing_debt"}

\* "label in norm" for a label character of the model: the labels of
\* ServiceLabelMap that are substrings of the text the character stands for
ServiceLabelsIn(c) ==
    CASE c = "zeibikimae_touki_junrieki" -> {"touki_junrieki"}   \* 税引前当期純利益
      [] c = "hitokabu_atari_no_touki_junrieki" -> {"touki_junrieki"}   \* 一株当たりの当期純利益
      [] c = "ryuudou_shisan_goukei" -> {"ryuudou_shisan_goukei", "shisan_goukei"}
      [] c = "kotei_shisan_goukei" -> {"kotei_shisan_goukei", "shisan_goukei"}
      [] c = "junshisan_goukei" -> {"junshisan_goukei", "shisan_goukei"}
      [] c = "ryuudou_fusai_goukei" -> {"ryuudou_fusai_goukei", "fusai_goukei"}
      [] c \in {ServiceLabelMap[i][1] : i \in DOMAIN ServiceLabelMap} -> {c}
      [] OTHER -> {}

\* _normalize, lines 92-93: whitespace removed
ServiceNormalize(text) == Remove(text, " ")

ServiceContains(norm, label) == \E i \in 1..Len(norm) : label \in ServiceLabelsIn(norm[i])

\* lines 117-120: the per-share and pre-tax variants of 当期純利益 are skipped
ServiceSkipped(norm, key) ==
    key = "net_income"
    /\ \E i \in 1..Len(norm) : norm[i] \in {"hitokabu_atari_no_touki_junrieki", "zeibikimae_touki_junrieki"}

\* lines 113-130: the indices of label_map whose label the line matches
ServiceMatches(norm) ==
    {i \in DOMAIN ServiceLabelMap :
        ~ServiceSkipped(norm, ServiceLabelMap[i][2]) /\ ServiceContains(norm, ServiceLabelMap[i][1])}

NoKey == "None"

\* data[key] = data.get(key, 0) + num for borrowings, data.setdefault(key, num) else
ServiceStore(data, key, num) ==
    IF key = "borrowings" THEN [data EXCEPT ![key] = OrZero(@) + num]
    ELSE [data EXCEPT ![key] = SetDefault(@, num)]

\* the body of the loop of lines 105-141 for one line
ServiceLine(st, text) ==
    LET norm == ServiceNormalize(text)
        num == ServiceParseNumber(text)
        matches == ServiceMatches(norm)
        matched_label == matches # {}
        key == ServiceLabelMap[CHOOSE i \in matches : \A j \in matches : i <= j][2]
        labelled ==
            IF ~matched_label THEN st
            ELSE IF num # Null THEN [st EXCEPT !.data = ServiceStore(@, key, num)]
            ELSE [st EXCEPT !.pending_key = key]
        any_label == \E i \in DOMAIN ServiceLabelMap : ServiceContains(norm, ServiceLabelMap[i][1])
    IN  IF labelled.pending_key # NoKey /\ num # Null /\ ~matched_label /\ ~any_label
        THEN [data |-> ServiceStore(labelled.data, labelled.pending_key, num), pending_key |-> NoKey]
        ELSE labelled

RECURSIVE ServiceLines(_, _)
ServiceLines(st, lines) ==
    IF lines = <<>> THEN st ELSE ServiceLines(ServiceLine(st, Head(lines)), Tail(lines))

\* lines 96-103: the stripped, non-empty lines of the pages
Strip(text) ==
    LET inked == {i \in 1..Len(text) : text[i] # " "}
    IN  IF inked = {} THEN <<>>
        ELSE SubSeq(text, CHOOSE i \in inked : \A j \in inked : i <= j,
                          CHOOSE i \in inked : \A j \in inked : j <= i)

StrippedLines(lines) == SelectSeq([i \in 1..Len(lines) |-> Strip(lines[i])], LAMBDA l : l # <<>>)

\* parse_financial_pdf, lines 64-149, for a PDF that opens; the result is a
\* dict, Absent for the keys it lacks
ServiceParseFinancialPdf(lines) ==
    LET done == ServiceLines([data |-> [k \in ServiceKeys |-> Absent], pending_key |-> NoKey],
                             StrippedLines(lines))
    IN  [done.data EXCEPT !["interest_bearing_debt"] =
            IF done.data["borrowings"] # Absent THEN SetDefault(@, done.data["borrowings"]) ELSE @]

(***************************************************************************)
(* pdf_financial_parser.py: the parser of multi-column statements.         *)
(***************************************************************************)
PdfSigns == {"WTRI", "BTRI", "MINUS", "-"}

\* _parse_number, lines 31-42, for a token without spaces
PdfParseNumber(token) ==
    LET cleaned == Replace(Replace(Replace(Remove(token, ","), "WTRI", "-"), "BTRI", "-"), "MINUS", "-")
        wrapped == Len(cleaned) >= 1 /\ cleaned[1] = "(" /\ cleaned[Len(cleaned)] = ")"
    IN  IF token = <<>> THEN Null
        ELSE IF wrapped THEN NumberOf(<<"-">> \o SubSeq(cleaned, 2, Len(cleaned) - 1))
        ELSE NumberOf(cleaned)

\* the end of the match of [△▲−-]?[\d,]+(?:\.\d+)? that starts at i, 0 for none
PdfTokenEnd(text, i) ==
    LET first == IF text[i] \in PdfSigns THEN i + 1 ELSE i
    IN  IF first > Len(text) \/ text[first] \notin UnicodeDigits \cup {","} THEN 0
        ELSE RunEnd(text, first, UnicodeDigits \cup {","})

RECURSIVE PdfTokens(_, _)
PdfTokens(text, i) ==
    IF i > Len(text) THEN <<>>
    ELSE IF PdfTokenEnd(text, i) = 0 THEN PdfTokens(text, i + 1)
    ELSE <<SubSeq(text, i, PdfTokenEnd(text, i))>> \o PdfTokens(text, PdfTokenEnd(text, i) + 1)

\* _extract_numbers, lines 45-51
PdfExtractNumbers(text) ==
    LET tokens == PdfTokens(text, 1)
    IN  SelectSeq([i \in 1..Len(tokens) |-> PdfParseNumber(tokens[i])], LAMBDA n : n # Null)

\* LABEL_MAP, lines 13-28, in dict order: the field of each pattern
PdfLabelFields ==
    <<"sales", "operating_profit", "ordinary_profit", "net_income", "depreciation",
      "labor_cost", "current_assets", "fixed_assets", "total_liabilities",
      "current_liabilities", "equity", "cash_and_deposits", "borrowings", "employees">>

\* re.search(pattern, line) for a label character of the model: the indices
\* of the patterns of LABEL_MAP found in the text the character stands for
PdfPatternsIn(c) ==
    CASE c = "uriagedaka" -> {1}                     \* 売上高
      [] c = "eigyou_rieki" -> {2}                   \* 営業利益
      [] c = "keijou_rieki" -> {3}                   \* 経常利益
      [] c = "touki_junrieki" -> {4}                 \* 当期純利益
      [] c = "zeibikimae_touki_junrieki" -> {4}      \* 税引前当期純利益
      [] c = "hitokabu_atari_no_touki_junrieki" -> {4}   \* 一株当たりの当期純利益
      [] c = "genka_shoukyakuhi" -> {5}              \* 減価償却費
      [] c = "ryuudou_shisan_goukei" -> {7}          \* 流動資産合計
      [] c = "kotei_shisan_goukei" -> {8}            \* 固定資産合計
      [] c = "fusai_goukei" -> {9}                   \* 負債合計
      [] c = "ryuudou_fusai_goukei" -> {9, 10}       \* 流動負債合計
      [] c = "junshisan_goukei" -> {11}              \* 純資産合計
      [] c = "tanki_kariirekin" -> {13}              \* 短期借入金
      [] c = "chouki_kariirekin" -> {13}             \* 長期借入金
      [] c = "juugyouinsuu" -> {14}                  \* 従業員数
      [] OTHER -> {}

\* re.findall(r"(20\d{2})", line) from position i on
RECURSIVE PdfYearsIn(_, _)
PdfYearsIn(text, i) ==
    IF i + 3 > Len(text) THEN <<>>
    ELSE IF text[i] = "2" /\ text[i + 1] = "0"
            /\ text[i + 2] \in UnicodeDigits /\ text[i + 3] \in UnicodeDigits
    THEN <<2000 + 10 * DigitValue(text[i + 2]) + DigitValue(text[i + 3])>> \o PdfYearsIn(text, i + 4)
    ELSE PdfYearsIn(text, i + 1)

RECURSIVE Descending(_)
Descending(S) ==
    IF S = {} THEN <<>>
    ELSE LET m == CHOOSE x \in S : \A y \in S : y <= x
         IN  <<m>> \o Descending(S \ {m})

\* _extract_years, lines 54-61
_extract_years(lines) ==
    LET found == UNION {{PdfYearsIn(lines[l], 1)[k] : k \in 1..Len(PdfYearsIn(lines[l], 1))} :
                        l \in 1..Len(lines)}
        sorted == Descending(found)
    IN  SubSeq(sorted, 1, IF Len(sorted) < 3 THEN Len(sorted) ELSE 3)

PdfRowFields == {"fiscal_year", "previous_sales"} \cup {PdfLabelFields[i] : i \in DOMAIN PdfLabelFields}

\* lines 90-98 for one line
PdfLine(rows, text) ==
    LET searched == UNION {PdfPatternsIn(text[i]) : i \in 1..Len(text)}
        nums == PdfExtractNumbers(text)
    IN  IF searched = {} \/ nums = <<>> THEN rows
        ELSE LET field == PdfLabelFields[CHOOSE p \in searched : \A q \in searched : p <= q]
             IN  [idx \in 1..Len(rows) |->
                    IF idx <= Len(nums) THEN [rows[idx] EXCEPT ![field] = nums[idx]] ELSE rows[idx]]

RECURSIVE PdfLines(_, _)
PdfLines(rows, lines) ==
    IF lines = <<>> THEN rows ELSE PdfLines(PdfLine(rows, Head(lines)), Tail(lines))

\* lines 100-104: the rows that hold a data point
PdfHasData(row) == \E f \in PdfRowFields \ {"fiscal_year"} : row[f] \notin {Absent, Null}

\* parse_financial_pdf, lines 64-106, for a PDF that opens
PdfParseFinancialPdf(pages, current_year) ==
    LET lines == StrippedLines(pages)
        found == _extract_years(lines)
        years == IF found = <<>> THEN <<current_year, current_year - 1, current_year - 2>> ELSE found
        rows == [idx \in 1..Len(years) |->
                    [f \in PdfRowFields |-> IF f = "fiscal_year" THEN years[idx] ELSE Absent]]
    IN  IF lines = <<>> THEN <<>>
        ELSE SelectSeq(PdfLines(rows, lines), PdfHasData)

(***************************************************************************)
(* financial_statement_parser.py: parse_financial_statement_pdf.  Further  *)
(* characters: "NEN" 年, "HEISEI" 平成, "REIWA" 令和, "SENYEN" 千円,        *)
(* "HYAKUMANYEN" 百万円.                                                    *)
(***************************************************************************)
\* _to_half_width, lines 39-42
_to_half_width(text) == [i \in 1..Len(text) |-> NFKC(text[i])]

\* re.sub(r"[ \t]+", " ", line)
RECURSIVE CollapseSpaces(_)
CollapseSpaces(text) ==
    IF Len(text) < 2 THEN text
    ELSE IF text[1] = " " /\ text[2] = " " THEN CollapseSpaces(Tail(text))
    ELSE <<text[1]>> \o CollapseSpaces(Tail(text))

\* _normalize_text, lines 53-61, on the lines of the text
_normalize_text(lines) ==
    SelectSeq([i \in 1..Len(lines) |->
                  CollapseSpaces(Strip(Remove(Remove(_to_half_width(lines[i]), ","), "FW,")))],
              LAMBDA l : l # <<>>)

\* _detect_unit_multiplier, lines 45-50
_detect_unit_multiplier(lines) ==
    IF \E l \in 1..Len(lines) : \E i \in 1..Len(lines[l]) : lines[l][i] = "HYAKUMANYEN" THEN 1000000
    ELSE IF \E l \in 1..Len(lines) : \E i \in 1..Len(lines[l]) : lines[l][i] = "SENYEN"
    THEN 1000
    ELSE 1

\* re.search(r"(20\d{2})年", line): the first match, None for none
WesternYear(line) ==
    LET at == {i \in 1..(Len(line) - 4) :
                  /\ line[i] = "2" /\ line[i + 1] = "0"
                  /\ line[i + 2] \in UnicodeDigits /\ line[i + 3] \in UnicodeDigits
                  /\ line[i + 4] = "NEN"}
    IN  IF at = {} THEN Null
        ELSE LET i == CHOOSE a \in at : \A b \in at : a <= b
             IN  2000 + 10 * DigitValue(line[i + 2]) + DigitValue(line[i + 3])

\* re.search(r"(平成|令和)\s*(\d{1,2})年", line): the first match, None for none
EraYear(line) ==
    LET digitsFrom(i) == RunEnd(line, RunEnd(line, i + 1, {" "}) + 1, UnicodeDigits)
        firstDigit(i) == RunEnd(line, i + 1, {" "}) + 1
        at == {i \in 1..Len(line) :
                  /\ line[i] \in {"HEISEI", "REIWA"}
                  /\ digitsFrom(i) - firstDigit(i) \in {0, 1}
                  /\ digitsFrom(i) + 1 <= Len(line)
                  /\ line[digitsFrom(i) + 1] = "NEN"}
    IN  IF at = {} THEN Null
        ELSE LET i == CHOOSE a \in at : \A b \in at : a <= b
                 era_year == DigitsValue(SubSeq(line, firstDigit(i), digitsFrom(i)))
             IN  IF line[i] = "HEISEI" THEN 1988 + era_year ELSE 2018 + era_year

\* _extract_year_from_line, lines 64-81
_extract_year_from_line(line) ==
    IF WesternYear(line) # Null THEN WesternYear(line) ELSE EraYear(line)

\* _detect_fiscal_year, lines 84-89: the first line with a year ("if year")
_detect_fiscal_year(lines) ==
    LET dated == {l \in 1..Len(lines) : _extract_year_from_line(lines[l]) \notin {Null, 0}}
    IN  IF dated = {} THEN Null
        ELSE _extract_year_from_line(lines[CHOOSE l \in dated : \A m \in dated : l <= m])

\* the end of the match of -?\d+ that starts at i, 0 for none
IntTokenEnd(text, i) ==
    LET first == IF text[i] = "-" THEN i + 1 ELSE i
    IN  IF first > Len(text) \/ text[first] \notin UnicodeDigits THEN 0
        ELSE RunEnd(text, first, UnicodeDigits)

RECURSIVE IntTokens(_, _)
IntTokens(text, i) ==
    IF i > Len(text) THEN <<>>
    ELSE IF IntTokenEnd(text, i) = 0 THEN IntTokens(text, i + 1)
    ELSE <<SubSeq(text, i, IntTokenEnd(text, i))>> \o IntTokens(text, IntTokenEnd(text, i) + 1)

\* _find_last_int_on_line, lines 94-101
_find_last_int_on_line(line) ==
    LET matches == IntTokens(line, 1)
    IN  IF matches = <<>> THEN Null ELSE NumberOf(matches[Len(matches)])

\* "label in line" over LABEL_MAP, lines 13-36, for a label character of the
\* model: the fields of the labels found in the text the character stands for
ParserFieldsIn(c) ==
    CASE c = "uriagedaka" -> {"sales"}
      [] c = "eigyou_rieki" -> {"operating_profit"}
      [] c = "keijou_rieki" -> {"ordinary_profit"}
      [] c = "touki_junrieki" -> {"net_income"}
      [] c = "zeibikimae_touki_junrieki" -> {"net_income"}
      [] c = "hitokabu_atari_no_touki_junrieki" -> {"net_income"}
      [] c = "genka_shoukyakuhi" -> {"depreciation"}
      [] c = "ryuudou_shisan_goukei" -> {"current_assets", "total_assets"}
      [] c = "ryuudou_fusai_goukei" -> {"current_liabilities", "total_liabilities"}
      [] c = "kotei_shisan_goukei" -> {"fixed_assets", "total_assets"}
      [] c = "shisan_goukei" -> {"total_assets"}
      [] c = "junshisan_goukei" -> {"equity", "total_assets"}
      [] c = "fusai_goukei" -> {"total_liabilities"}
      [] c = "juugyouinsuu" -> {"employees"}
      [] OTHER -> {}

ParserFields ==
    {"fiscal_year", "sales", "operating_profit", "ordinary_profit", "net_income", "depreciation",
     "labor_cost", "current_assets", "current_liabilities", "fixed_assets", "total_assets",
     "equity", "total_liabilities", "employees"}

\* _parse_metrics, lines 104-113, for one line
ParserLine(metrics, line, multiplier) ==
    LET fields == UNION {ParserFieldsIn(line[i]) : i \in 1..Len(line)}
        val == _find_last_int_on_line(line)
    IN  IF val = Null THEN metrics
        ELSE [f \in ParserFields |-> IF f \in fields THEN val * multiplier ELSE metrics[f]]

RECURSIVE _parse_metrics(_, _, _)
_parse_metrics(metrics, lines, multiplier) ==
    IF lines = <<>> THEN metrics
    ELSE _parse_metrics(ParserLine(metrics, Head(lines), multiplier), Tail(lines), multiplier)

\* parse_financial_statement_pdf, lines 116-138, for a PDF that opens
parse_financial_statement_pdf(pages, fiscal_year_hint) ==
    LET text_half == [l \in 1..Len(pages) |-> _to_half_width(pages[l])]
        lines == _normalize_text(text_half)
        multiplier == _detect_unit_multiplier(text_half)
        fiscal_year == IF fiscal_year_hint \notin {Null, 0} THEN fiscal_year_hint
                       ELSE _detect_fiscal_year(lines)
        metrics == _parse_metrics([f \in ParserFields |-> Absent], lines, multiplier)
    IN  IF fiscal_year \notin {Null, 0} THEN [metrics EXCEPT !["fiscal_year"] = fiscal_year]
        ELSE metrics

(***************************************************************************)
(* SpecAlign: one batch through upsert_financial_rows' filter, sort and    *)
(* backfill (lines 161-171).                                               *)
(***************************************************************************)
AlignYears == {2022, 2023, 2024}
AlignAmounts == {120, 136, 150}

\* period records as a parser hands them over, and one without a fiscal year
AlignRows ==
    [fiscal_year : AlignYears, sales : AlignAmounts \cup {Null}, previous_sales : {Absent, 100}]
    \cup {[fiscal_year |-> Null, sales |-> 150, previous_sales |-> Absent]}

AlignInit ==
    /\ pc = "batch"
    /\ batch \in UNION {[1..n -> AlignRows] : n \in 0..MaxBatch}
    /\ normalized = <<>>
    /\ StoreInit
    /\ ImportIdle
    /\ ReportIdle
    /\ RestIdle

NormalizeBatch ==
    /\ pc = "batch"
    /\ normalized' = NormalizeRows(batch)
    /\ pc' = "normalized"
    /\ UNCHANGED <<batch, storeVars, importVars, reportVars, restVars>>

AlignNext == NormalizeBatch

SpecAlign == AlignInit /\ [][AlignNext]_vars

\* C5: after alignment the batch is ordered latest to earliest; a period that
\* had no previous_sales and has a successor holds the successor's sales; a
\* previous_sales that was present, and that of the earliest period, is as it
\* was; no other field changes.
C5_Backfill ==
    pc = "normalized" =>
        LET sorted == SortRows(FilterRows(batch))
        IN  /\ Len(normalized) = Len(sorted)
            /\ \A i \in 1..Len(normalized) :
                  /\ normalized[i].fiscal_year = sorted[i].fiscal_year
                  /\ normalized[i].sales = sorted[i].sales
                  /\ i < Len(normalized) => normalized[i].fiscal_year >= normalized[i + 1].fiscal_year
                  /\ IF sorted[i].previous_sales \in {Absent, Null} /\ i < Len(normalized)
                     THEN normalized[i].previous_sales = normalized[i + 1].sales
                     ELSE normalized[i].previous_sales = sorted[i].previous_sales

\* C5 witness: the batch 2024/15.0M, 2023/13.6M, 2022/12.0M (in units of
\* 100,000, handed over in another order) after alignment.
C5_Witness ==
    /\ pc = "normalized"
    /\ batch = <<[fiscal_year |-> 2023, sales |-> 136, previous_sales |-> Absent],
                [fiscal_year |-> 2022, sales |-> 120, previous_sales |-> Absent],
                [fiscal_year |-> 2024, sales |-> 150, previous_sales |-> Absent]>>
    /\ normalized = <<[fiscal_year |-> 2024, sales |-> 150, previous_sales |-> 136],
                   [fiscal_year |-> 2023, sales |-> 136, previous_sales |-> 120],
                   [fiscal_year |-> 2022, sales |-> 120, previous_sales |-> Absent]>>

(***************************************************************************)
(* SpecImport: one worksheet through parse_local_benchmark and             *)
(* upsert_financial_rows' alignment (financial_import.py, lines 163-168),  *)
(* and the aligned batch through the alignment once more.                  *)
(***************************************************************************)
MaxDataRows == 2

ClockYears == {2025}

HeaderCells == {EmptyCell, NumberCell(2023), NumberCell(2024), TextCell("2024nen")}

HeaderRows == {<<EmptyCell, a, b>> : a, b \in HeaderCells}

LabelledRows(label, firsts, seconds) ==
    {<<TextCell(label), a, b>> : a \in {EmptyCell} \cup firsts, b \in {EmptyCell} \cup seconds}

DataRows ==
    LabelledRows("uriagedaka", {NumberCell(150)}, {NumberCell(136)})
    \cup LabelledRows("kaikakekin", {NumberCell(0), NumberCell(4)}, {NumberCell(4)})
    \cup LabelledRows("fusai_goukei", {NumberCell(7)}, {})
    \cup LabelledRows("genkin_yokin", {NumberCell(5)}, {})
    \cup LabelledRows("bikou", {}, {})

Sheets ==
    {<<h>> \o d : h \in HeaderRows, d \in UNION {[1..n -> DataRows] : n \in 0..MaxDataRows}}

ImportInit ==
    /\ pc = "sheet"
    /\ content \in Sheets
    /\ utcnow \in ClockYears
    /\ batch = <<>>
    /\ normalized = <<>>
    /\ realigned = <<>>
    /\ StoreInit
    /\ ReportIdle
    /\ RestIdle

\* rows = parse_local_benchmark(content), financial_import.py line 164
ParseLocalBenchmark ==
    /\ pc = "sheet"
    /\ batch' = parse_local_benchmark(content, utcnow)
    /\ pc' = "batch"
    /\ UNCHANGED <<normalized, storeVars, importVars, reportVars, restVars>>

\* the alignment: the derivation of lines 149-160, then the filter, sort and
\* backfill of upsert_financial_rows
Align(entries) == NormalizeRows(DeriveEntries(entries))

Realign ==
    /\ pc = "normalized"
    /\ realigned' = Align(normalized)
    /\ pc' = "realigned"
    /\ UNCHANGED <<batch, normalized, storeVars, content, utcnow, reportVars, restVars>>

ImportNext == ParseLocalBenchmark \/ NormalizeBatch \/ Realign

SpecImport == ImportInit /\ [][ImportNext]_vars

\* C6: aligning an aligned batch changes no value.
C6_AlignIdempotent ==
    pc = "realigned" => realigned = normalized

\* C6 witness: the alignment sorted the batch, backfilled previous_sales and
\* derived total_liabilities and current_liabilities from payables, and the
\* second alignment has run.
C6_Witness ==
    /\ pc = "realigned"
    /\ Len(normalized) = 2
    /\ batch[1].fiscal_year = 2023
    /\ batch[1].previous_sales = Absent
    /\ normalized[1].fiscal_year = 2024
    /\ normalized[1].previous_sales = 150
    /\ normalized[1].total_liabilities = 4
    /\ normalized[1].current_liabilities = 4
    /\ normalized[1].current_assets = 0
    /\ realigned = normalized

\* C7: the batch parse_local_benchmark hands to upsert_financial_rows is
\* ordered strictly from the latest fiscal year to the earliest, so its
\* fiscal years are pairwise distinct.
C7_BatchStrictlyDescending ==
    pc = "batch" =>
        \A i \in 1..(Len(batch) - 1) : batch[i].fiscal_year > batch[i + 1].fiscal_year

(***************************************************************************)
(* SpecReport: the statements of one company through _build_radar          *)
(* (company_report.py, lines 819-820).                                     *)
(***************************************************************************)
\* _load_financials, line 294: .limit(3)
FINANCIALS_LIMIT == 3

SalesValues == {Null, 0, 100}
NetIncomeValues == {Null, 10}
DebtValues == {Null, 0, 30}
EquityAndAssets == {<<Null, Null>>, <<15, 100>>}
ReceivablesValues == {Null, 20}

ReportStatement(sales, net_income, debt, equity, receivables) ==
    [sales |-> sales, previous_sales |-> Null, operating_profit |-> 8,
     depreciation |-> Null, net_income |-> net_income,
     interest_bearing_debt |-> debt, borrowings |-> Null,
     receivables |-> receivables, inventory |-> Null, payables |-> Null,
     equity |-> equity[1], total_assets |-> equity[2], employees |-> 4]

ReportStatements ==
    {ReportStatement(s, n, d, e, r) :
        s \in SalesValues, n \in NetIncomeValues, d \in DebtValues, e \in EquityAndAssets,
        r \in ReceivablesValues}

ReportInit ==
    /\ pc = "financials"
    /\ financials \in UNION {[1..n -> ReportStatements] : n \in 0..FINANCIALS_LIMIT}
    /\ radar = <<>>
    /\ batch = <<>>
    /\ normalized = <<>>
    /\ StoreInit
    /\ ImportIdle
    /\ RestIdle

BuildRadar ==
    /\ pc = "financials"
    /\ radar' = _build_radar(financials)
    /\ pc' = "radar"
    /\ UNCHANGED <<financials, batch, normalized, storeVars, importVars, restVars>>

ReportNext == BuildRadar

SpecReport == ReportInit /\ [][ReportNext]_vars

\* a required input of the ratio is absent; the terms of a sum count as
\* one input, absent when every term is
C8Missing(stmt, prev_sales, key) ==
    CASE key = "sales_sustainability" ->
            stmt.sales = Null \/ ResolvedPreviousSales(stmt, prev_sales) = Null
      [] key = "profitability" -> stmt.operating_profit = Null \/ stmt.sales = Null
      [] key = "soundness" ->
            \/ ResolvedBorrowings(stmt) = Null
            \/ (stmt.net_income = Null /\ stmt.depreciation = Null)
      [] key = "efficiency" ->
            \/ stmt.sales = Null
            \/ (stmt.receivables = Null /\ stmt.inventory = Null /\ stmt.payables = Null)
      [] key = "safety" -> stmt.equity = Null \/ stmt.total_assets = Null

\* C8: a ratio with a required input absent is None.
C8_NullPropagation ==
    pc = "radar" =>
        \A i \in 1..Len(radar) : \A k \in 1..Len(radar[i].kpis) :
            C8Missing(financials[i], PrevSales(financials, i), radar[i].kpis[k].key)
                => IsNone(radar[i].kpis[k].raw)

\* C9: a period without equity and total_assets has no equity ratio, and on
\* no axis does a period whose ratio is None get the score of a period whose
\* ratio has a value, in the kpis and in the radar scores.
C9_NoDataDistinguishable ==
    pc = "radar" =>
        /\ \A i \in 1..Len(radar) :
              (financials[i].equity = Null /\ financials[i].total_assets = Null)
                  => \A k \in 1..Len(radar[i].kpis) :
                        radar[i].kpis[k].key = "safety" => IsNone(radar[i].kpis[k].raw)
        /\ \A i, j \in 1..Len(radar) : \A k \in 1..Len(radar[i].kpis) :
              (IsNone(radar[i].kpis[k].raw) /\ ~IsNone(radar[j].kpis[k].raw))
                  => /\ radar[i].kpis[k].score # radar[j].kpis[k].score
                     /\ radar[i].scores[k] # radar[j].scores[k]

\* C10: a statement whose interest-bearing debt is absent or not positive
\* has no soundness ratio and the soundness score 5.
C10_DebtFreeScoresFive ==
    pc = "radar" =>
        \A i \in 1..Len(radar) :
            (ResolvedBorrowings(financials[i]) = Null \/ ResolvedBorrowings(financials[i]) <= 0)
                => \A k \in 1..Len(radar[i].kpis) :
                      radar[i].kpis[k].key = "soundness"
                          => /\ IsNone(radar[i].kpis[k].raw)
                             /\ radar[i].kpis[k].score = 5
                             /\ radar[i].scores[k] = 5

\* the six axes 売上持続性, 収益性, 生産性, 健全性, 効率性, 安全性
C11Axes == <<"uriage_jizokusei", "shuuekisei", "seisansei", "kenzensei", "kouritsusei", "anzensei">>

\* C11: the radar has the six axes and one period per statement; every
\* period has six raw values, and its productivity value is
\* operating_profit / employees when employees > 0 and None otherwise.
C11_SixAxesWithProductivity ==
    pc = "radar" =>
        /\ AXES = C11Axes
        /\ Len(radar) = Len(financials)
        /\ \A i \in 1..Len(radar) :
              /\ Len(radar[i].raw_values) = 6
              /\ \E k \in 1..Len(radar[i].kpis) :
                    /\ radar[i].kpis[k].key = "productivity"
                    /\ radar[i].kpis[k].raw =
                          IF financials[i].employees # Null /\ financials[i].employees > 0
                          THEN Ratio(financials[i].operating_profit, financials[i].employees)
                          ELSE NoRatio

(***************************************************************************)
(* SpecParse: the text of one PDF through each of the three PDF parsers.   *)
(***************************************************************************)
MaxLines == 2

\* 1,234
Amount1234 == <<"1", ",", "2", "3", "4">>
\* 75,000,000 and 3,750,000
Amount75M == <<"7", "5", ",", "0", "0", "0", ",", "0", "0", "0">>
Amount3750K == <<"3", ",", "7", "5", "0", ",", "0", "0", "0">>

\* the same text in full-width digits and commas
FullWidth(text) ==
    [i \in 1..Len(text) |->
        IF text[i] = "," THEN "FW,"
        ELSE IF text[i] \in AsciiDigits
        THEN CHOOSE w \in FullWidthDigits : DigitValue(w) = DigitValue(text[i])
        ELSE text[i]]

Marks == {"none", "WTRI", "BTRI", "-", "MINUS", "()"}

SignedToken(mark, amount) ==
    IF mark = "none" THEN amount
    ELSE IF mark = "()" THEN <<"(">> \o amount \o <<")">>
    ELSE <<mark>> \o amount

LabelledLine(label, token) == <<label, " ">> \o token

ParseLines ==
    {LabelledLine("uriagedaka", SignedToken(m, Amount1234)) : m \in Marks}
    \cup {LabelledLine("uriagedaka", Amount75M \o <<"YEN">>),
          LabelledLine("uriagedaka", FullWidth(Amount75M) \o <<"YEN">>),
          LabelledLine("eigyou_rieki", Amount3750K \o <<"YEN">>),
          LabelledLine("eigyou_rieki", FullWidth(Amount3750K) \o <<"YEN">>),
          <<"keijou_rieki">>,
          <<"junshisan_goukei">>,
          LabelledLine("tanki_kariirekin", <<"5", "0", "0">>),
          LabelledLine("chouki_kariirekin", Amount1234),
          LabelledLine("zeibikimae_touki_junrieki", <<"5", "0", "0">>),
          LabelledLine("hitokabu_atari_no_touki_junrieki", <<"5", "0", "0">>),
          <<"zeibikimae_touki_junrieki">>,
          <<"5", "0", "0">>,
          <<"2", "0", "2", "4", "NEN">>,
          <<" ">>}

FiscalYearHints == {Null, 2023}

ParseInit ==
    /\ pc = "pdf"
    /\ pdf \in UNION {[1..n -> ParseLines] : n \in 0..MaxLines}
    /\ opens \in BOOLEAN
    /\ unreadable \in IF opens THEN 0..Len(pdf) ELSE {0}
    /\ extracted = NotParsed
    /\ utcnow \in ClockYears
    /\ content = <<>>
    /\ realigned = <<>>
    /\ batch = <<>>
    /\ normalized = <<>>
    /\ StoreInit
    /\ ReportIdle
    /\ UploadIdle
    /\ BookingIdle
    /\ ChatIdle
    /\ BudgetIdle
    /\ MemoIdle
    /\ LaterIdle

Parsed(parser, result) ==
    /\ pc = "pdf"
    /\ extracted' = [parser |-> parser, result |-> result]
    /\ pc' = "parsed"
    /\ UNCHANGED <<pdf, opens, unreadable, batch, normalized, storeVars, importVars, reportVars, uploadVars, bookingVars, chatVars, budgetVars, memoVars, laterVars>>

\* every page of the model holds one line of text; the try blocks of the
\* three parsers enclose the opening of the file and the loop over its pages
Extracts == opens /\ unreadable = 0

\* financial_statement_service.parse_financial_pdf: {} when the PDF does not
\* open or a page does not extract (lines 94-105)
ParseFinancialPdf ==
    Parsed("financial_statement_service",
           IF Extracts THEN ServiceParseFinancialPdf(pdf) ELSE [k \in ServiceKeys |-> Absent])

\* financial_statement_parser.parse_financial_statement_pdf: {} when the PDF
\* does not open or a page does not extract (lines 121-126)
ParseFinancialStatementPdf ==
    \E hint \in FiscalYearHints :
        Parsed("financial_statement_parser",
               IF Extracts THEN parse_financial_statement_pdf(pdf, hint) ELSE [f \in ParserFields |-> Absent])

\* pdf_financial_parser.parse_financial_pdf: [] when the PDF does not open
\* or a page does not extract (lines 71-79)
ParsePdfColumns ==
    Parsed("pdf_financial_parser", IF Extracts THEN PdfParseFinancialPdf(pdf, utcnow) ELSE <<>>)

ParseNext == ParseFinancialPdf \/ ParseFinancialStatementPdf \/ ParsePdfColumns

SpecParse == ParseInit /\ [][ParseNext]_vars

\* the value the parser that ran returned for a field of the latest period
ParsedField(field) ==
    IF extracted.parser = "pdf_financial_parser"
    THEN IF extracted.result = <<>> THEN Absent ELSE extracted.result[1][field]
    ELSE extracted.result[field]

\* C12: from a line "売上高 <token>" every parser extracts the negated amount
\* when the token is marked with △, ▲, a minus variant or parentheses, and the
\* plain amount otherwise.
C12_NegativeConventions ==
    \A m \in Marks :
        (pc = "parsed" /\ Extracts /\ pdf = <<LabelledLine("uriagedaka", SignedToken(m, Amount1234))>>)
            => ParsedField("sales") = IF m = "none" THEN 1234 ELSE 0 - 1234

\* C13: the lines 売上高 ７５，０００，０００円 and 営業利益 ３，７５０，０００円, written
\* in full-width digits and commas, yield what their half-width forms yield:
\* sales = 75,000,000 and operating_profit = 3,750,000.
C13_FullWidthNormalized ==
    (/\ pc = "parsed"
     /\ Extracts
     /\ pdf = <<LabelledLine("uriagedaka", FullWidth(Amount75M) \o <<"YEN">>),
                LabelledLine("eigyou_rieki", FullWidth(Amount3750K) \o <<"YEN">>)>>)
        => /\ ParsedField("sales") = 75000000
           /\ ParsedField("operating_profit") = 3750000

(***************************************************************************)
(* SpecUpload: POST /documents/upload (api/documents.py, lines 84-161).    *)
(***************************************************************************)
MaxDocuments == 2

\* ALLOWED_EXTENSIONS holds ".pdf" and ".xlsx" but not ".exe"
UploadSuffixes == {".pdf", ".xlsx", ".exe"}
ALLOWED_EXTENSIONS == {".pdf", ".xlsx"}

\* worksheets with a year row and a 売上高 row
UploadSheets ==
    {<<h, d>> : h \in HeaderRows, d \in LabelledRows("uriagedaka", {NumberCell(150)}, {NumberCell(136)})}

UploadInit ==
    /\ pc = "idle"
    /\ batch = <<>>
    /\ normalized = <<>>
    /\ content = <<>>
    /\ utcnow \in ClockYears
    /\ realigned = <<>>
    /\ StoreInit
    /\ ReportIdle
    /\ ParseIdle
    /\ UploadIdle
    /\ BookingIdle
    /\ ChatIdle
    /\ BudgetIdle
    /\ MemoIdle
    /\ LaterIdle

Rejected == [status |-> 400, stored |-> FALSE, parse |-> "not_run"]

Accepted(parse) == [status |-> 200, stored |-> TRUE, parse |-> parse]

\* upload_document, lines 84-161.  has_id: one of user_id, company_id and
\* conversation_id was sent; size_ok: the file is neither empty nor above
\* MAX_FILE_SIZE; local_benchmark: doc_type or the file name marks a local
\* benchmark sheet; workbook_opens: openpyxl can load the content;
\* ingest_ok: ingest_document did not raise.
upload_document(has_id, size_ok, suffix, local_benchmark, workbook_opens, sheet, ingest_ok, company_id) ==
    IF ~has_id \/ ~size_ok \/ suffix \notin ALLOWED_EXTENSIONS
    THEN /\ uploaded' = Rejected
         /\ UNCHANGED <<documents, storeVars>>
    ELSE /\ Len(documents) < MaxDocuments
         /\ documents' = Append(documents, [suffix |-> suffix, ingested |-> ingest_ok])
         /\ IF suffix = ".xlsx" /\ local_benchmark
            THEN IF ~workbook_opens
                 THEN \* load_workbook raises in parse_local_benchmark (line 90);
                      \* the except of line 151 swallows it
                      /\ uploaded' = Accepted("raised")
                      /\ UNCHANGED storeVars
                 ELSE IF parse_local_benchmark(sheet, utcnow) = <<>>
                 THEN /\ uploaded' = Accepted("returned_empty")
                      /\ UNCHANGED storeVars
                 ELSE /\ uploaded' = Accepted("returned_rows")
                      /\ upsert_financial_rows(company_id, parse_local_benchmark(sheet, utcnow))
            ELSE /\ uploaded' = Accepted("not_run")
                 /\ UNCHANGED storeVars

UploadDocument ==
    /\ \E has_id \in BOOLEAN, size_ok \in BOOLEAN, suffix \in UploadSuffixes,
          local_benchmark \in BOOLEAN, workbook_opens \in BOOLEAN, sheet \in UploadSheets,
          ingest_ok \in BOOLEAN, company_id \in Companies :
            upload_document(has_id, size_ok, suffix, local_benchmark, workbook_opens, sheet,
                            ingest_ok, company_id)
    /\ UNCHANGED <<alignVars, importVars, reportVars, parseVars, bookingVars, chatVars, budgetVars, memoVars, laterVars>>

UploadNext == UploadDocument

SpecUpload == UploadInit /\ [][UploadNext]_vars

\* C14: an upload whose parse met a file that cannot be opened got an empty
\* result from the parser, not an exception; its Document is stored and the
\* response is a success.
C14_ExtractionFailureIsEmptyResult ==
    [][(/\ uploaded'.parse # "not_run"
        /\ uploaded'.parse # "returned_rows"
        /\ documents' # documents)
          => /\ uploaded'.parse = "returned_empty"
             /\ uploaded'.stored
             /\ uploaded'.status = 200
             /\ Len(documents') = Len(documents) + 1
             /\ store' = store]_vars

(***************************************************************************)
(* Booking rules (services/booking_rules.py).  A date is a day number      *)
(* counted from 2025-11-30, so that day 1 (2025-12-01) is a Monday.        *)
(***************************************************************************)
DEFAULT_SLOTS == <<"10:00-11:00", "11:00-12:00", "14:00-15:00", "15:00-16:00">>

\* 2025-12-29 .. 2026-01-03
EXTRA_CLOSED_DATES == {29, 30, 31, 32, 33, 34}

\* jpholiday.is_holiday over the modelled range: 2026-01-01 and 2026-01-12
Holidays == {32, 43}

\* date.weekday(): 0 is Monday
weekday(target) == (target - 1) % 7

booking_window(today) == [start |-> today + 1, end |-> today + 28]

is_closed_day(target) ==
    weekday(target) >= 5 \/ target \in Holidays \/ target \in EXTRA_CLOSED_DATES

is_within_booking_window(target, today) ==
    booking_window(today).start <= target /\ target <= booking_window(today).end

(***************************************************************************)
(* api/experts.py                                                          *)
(***************************************************************************)
\* the slots written into every seeded availability row
SeedSlots == <<"10:00-11:00", "11:00-12:00", "14:00-15:00", "16:00-17:00">>

\* the while loop of lines 53-59 and of lines 117-123: the first ten open
\* days of the window
RECURSIVE SampleDatesFrom(_, _, _)
SampleDatesFrom(current, end, sample_dates) ==
    IF current <= end /\ Len(sample_dates) < 10
    THEN SampleDatesFrom(current + 1, end,
                         IF is_closed_day(current) THEN sample_dates ELSE Append(sample_dates, current))
    ELSE sample_dates

SampleDates(today) == SampleDatesFrom(booking_window(today).start, booking_window(today).end, <<>>)

AvailabilityRows(expert_id, dates) ==
    [i \in 1..Len(dates) |-> [expert_id |-> expert_id, date |-> dates[i], slots |-> SeedSlots]]

SeededExperts == <<"expert1", "expert2">>

\* _seed_experts_if_needed: the experts and availability rows after the call
SeededDates(today) == IF SampleDates(today) = <<>> THEN <<booking_window(today).start>> ELSE SampleDates(today)

_seed_experts_if_needed(exps, avail, today) ==
    IF exps # {}
    THEN [experts |-> exps, availabilities |-> avail]
    ELSE [experts |-> {SeededExperts[1], SeededExperts[2]},
          availabilities |-> avail \o AvailabilityRows(SeededExperts[1], SeededDates(today))
                                   \o AvailabilityRows(SeededExperts[2], SeededDates(today))]

\* the availability rows of one expert; rows are inserted in date order, so
\* the table order is the order_by(date.asc()) order
RowsOfExpert(avail, expert_id) ==
    LET Mine(row) == row.expert_id = expert_id IN SelectSeq(avail, Mine)

\* lines 136-148: the slots of the expert's non-cancelled bookings on a date
\* inside the window
booked_by_date(bks, expert_id, target, today) ==
    {bks[i].time_slot : i \in {j \in 1..Len(bks) :
        /\ bks[j].expert_id = expert_id
        /\ bks[j].date >= booking_window(today).start
        /\ bks[j].date <= booking_window(today).end
        /\ bks[j].status # "cancelled"
        /\ bks[j].date = target}}

\* lines 150-168: the item of one availability row
AvailabilityItem(item, bks, today) ==
    LET booked == booked_by_date(bks, item.expert_id, item.date, today)
        IsBooked(slot) == slot \in booked
        IsFree(slot) == slot \notin booked
    IN  [date |-> item.date,
         slots |-> item.slots,
         booked_slots |-> SelectSeq(item.slots, IsBooked),
         available_count |-> Len(SelectSeq(item.slots, IsFree))]

availability_items(rows, bks, today) ==
    LET Shown(item) ==
            /\ ~(item.date < booking_window(today).start \/ item.date > booking_window(today).end)
            /\ ~is_closed_day(item.date)
            /\ item.slots # <<>>
        shown == SelectSeq(rows, Shown)
    IN  [i \in 1..Len(shown) |-> AvailabilityItem(shown[i], bks, today)]

(***************************************************************************)
(* SpecBooking: the expert and booking endpoints.                          *)
(***************************************************************************)
MaxBookings == 2
MaxDays == 1

\* an expert row created without availability rows, the seeded expert, and
\* an id that is not in the table
RequestExperts == {"expert0", "expert1", "unknown"}

\* 2025-12-24 (the first today), 12-25 (open), 12-27 (Saturday), 12-29 (extra
\* closure), 2026-01-12 (holiday), 2026-01-22 (day 29 of the window)
RequestDates == {24, 25, 27, 29, 43, 53}

\* offered and default, default but not offered, offered but not default
RequestSlots == {DEFAULT_SLOTS[1], DEFAULT_SLOTS[4], SeedSlots[4]}

\* the outcome of the conversation lookup of lines 196-203
RequestConversations == {"none", "missing", "other_user"}

BookingStatus == {"pending", "confirmed", "done", "cancelled"}

BookingInit ==
    /\ pc = "idle"
    /\ batch = <<>>
    /\ normalized = <<>>
    /\ StoreInit
    /\ ImportIdle
    /\ ReportIdle
    /\ ParseIdle
    /\ UploadIdle
    /\ ChatIdle
    /\ BudgetIdle
    /\ MemoIdle
    /\ LaterIdle
    /\ jst_today = BaseToday
    /\ experts \in {{}, {"expert0"}}
    /\ availabilities = <<>>
    /\ bookings = <<>>
    /\ reply = NoReply

Seeded == _seed_experts_if_needed(experts, availabilities, jst_today)

\* GET /experts
ListExperts ==
    /\ experts' = Seeded.experts
    /\ availabilities' = Seeded.availabilities
    /\ reply' = [op |-> "list_experts", status |-> 200]
    /\ UNCHANGED <<jst_today, bookings>>

\* GET /experts/{expert_id}/availability
get_expert_availability(expert_id) ==
    /\ experts' = Seeded.experts
    /\ IF expert_id \notin Seeded.experts
       THEN /\ availabilities' = Seeded.availabilities
            /\ reply' = [op |-> "get_expert_availability", status |-> 404]
       ELSE LET rows == IF RowsOfExpert(Seeded.availabilities, expert_id) = <<>>
                        THEN Seeded.availabilities \o AvailabilityRows(expert_id, SampleDates(jst_today))
                        ELSE Seeded.availabilities
            IN  /\ availabilities' = rows
                /\ reply' = [op |-> "get_expert_availability", status |-> 200,
                             expert_id |-> expert_id,
                             availability |-> availability_items(RowsOfExpert(rows, expert_id), bookings, jst_today)]
    /\ UNCHANGED <<jst_today, bookings>>

GetExpertAvailability == \E expert_id \in RequestExperts : get_expert_availability(expert_id)

\* lines 185-190: the slots of the first availability row of the expert on the date
valid_slots(avail, expert_id, target) ==
    LET Mine(row) == row.expert_id = expert_id /\ row.date = target
        found == SelectSeq(avail, Mine)
    IN  IF found = <<>> THEN <<>> ELSE found[1].slots

InSeq(x, seq) == \E i \in 1..Len(seq) : seq[i] = x

\* lines 215-224: a non-cancelled booking of the slot
existing(bks, payload) ==
    \E i \in 1..Len(bks) :
        /\ bks[i].expert_id = payload.expert_id
        /\ bks[i].date = payload.date
        /\ bks[i].time_slot = payload.time_slot
        /\ bks[i].status # "cancelled"

\* a mutant of uq_consultation_booking_slot: a table without the constraint
NoUniqueConstraint(bks, payload) == TRUE

\* uq_consultation_booking_slot (models/expert.py, line 43): the insert
\* fails when some row holds the same expert_id, date and time_slot
uq_consultation_booking_slot(bks, payload) ==
    \A i \in 1..Len(bks) :
        ~(/\ bks[i].expert_id = payload.expert_id
          /\ bks[i].date = payload.date
          /\ bks[i].time_slot = payload.time_slot)

Response(payload, status) == [op |-> "create_consultation_booking", status |-> status, payload |-> payload]

\* the status of the response of POST /consultations
BookingResponseStatus(payload) ==
    IF payload.expert_id \notin experts THEN 404
    ELSE IF ~is_within_booking_window(payload.date, jst_today) \/ is_closed_day(payload.date) THEN 400
    ELSE IF valid_slots(availabilities, payload.expert_id, payload.date) = <<>> THEN 400
    ELSE IF ~InSeq(payload.time_slot, valid_slots(availabilities, payload.expert_id, payload.date)) THEN 400
    ELSE IF payload.conversation = "missing" THEN 404
    ELSE IF payload.conversation = "other_user" THEN 400
    ELSE IF existing(bookings, payload) THEN 409
    ELSE IF ~uq_consultation_booking_slot(bookings, payload) THEN 409
    ELSE 200

\* POST /consultations
create_consultation_booking(payload) ==
    /\ reply' = Response(payload, BookingResponseStatus(payload))
    /\ IF BookingResponseStatus(payload) = 200
       THEN /\ Len(bookings) < MaxBookings
            /\ bookings' = Append(bookings, [expert_id |-> payload.expert_id, date |-> payload.date,
                                             time_slot |-> payload.time_slot, status |-> "pending"])
       ELSE UNCHANGED bookings
    /\ UNCHANGED <<jst_today, experts, availabilities>>

CreateConsultationBooking ==
    \E expert_id \in RequestExperts, target \in RequestDates, time_slot \in RequestSlots,
       conversation \in RequestConversations :
         create_consultation_booking([expert_id |-> expert_id, date |-> target,
                                      time_slot |-> time_slot, conversation |-> conversation])

\* PATCH /admin/bookings/{booking_id} with a status (api/admin_bookings.py)
update_booking(i, status) ==
    /\ bookings' = [bookings EXCEPT ![i].status = status]
    /\ reply' = [op |-> "update_booking", status |-> 200]
    /\ UNCHANGED <<jst_today, experts, availabilities>>

UpdateBooking == \E i \in 1..Len(bookings), status \in BookingStatus : update_booking(i, status)

\* midnight in JST
NextDay ==
    /\ jst_today < BaseToday + MaxDays
    /\ jst_today' = jst_today + 1
    /\ UNCHANGED <<experts, availabilities, bookings, reply>>

BookingNext ==
    /\ \/ ListExperts
       \/ GetExpertAvailability
       \/ CreateConsultationBooking
       \/ UpdateBooking
       \/ NextDay
    /\ UNCHANGED <<storeVars, alignVars, importVars, reportVars, parseVars, uploadVars, chatVars, budgetVars, memoVars, laterVars>>

SpecBooking == BookingInit /\ [][BookingNext]_vars

\* a step that answers a POST /consultations request
CreateReplied == reply'.op = "create_consultation_booking" /\ jst_today' = jst_today

\* a request that the booking rules allow: a known expert, a date of the
\* window that is not closed, a default slot and no conversation trouble
RuleValid(payload) ==
    /\ payload.expert_id \in experts
    /\ is_within_booking_window(payload.date, jst_today)
    /\ ~is_closed_day(payload.date)
    /\ InSeq(payload.time_slot, DEFAULT_SLOTS)
    /\ payload.conversation = "none"

Booked(payload) == [expert_id |-> payload.expert_id, date |-> payload.date,
                    time_slot |-> payload.time_slot, status |-> "pending"]

\* C15: while a non-cancelled booking holds an (expert_id, date, time_slot),
\* a further request for it adds no booking and, being otherwise valid, gets
\* 409; a request for a free, valid slot gets 200 and adds its booking.
C15_NoDoubleBooking ==
    [][CreateReplied =>
        /\ existing(bookings, reply'.payload) =>
              /\ bookings' = bookings
              /\ RuleValid(reply'.payload) => reply'.status = 409
        /\ (~existing(bookings, reply'.payload) /\ RuleValid(reply'.payload)) =>
              /\ reply'.status = 200
              /\ bookings' = Append(bookings, Booked(reply'.payload))]_vars

\* C16: when the slot has bookings and all of them are cancelled, an
\* otherwise valid request for it gets 200 and adds a booking.
C16_CancelledBookingFreesSlot ==
    [][CreateReplied =>
        ((/\ ~uq_consultation_booking_slot(bookings, reply'.payload)
          /\ ~existing(bookings, reply'.payload)
          /\ RuleValid(reply'.payload))
            => /\ reply'.status = 200
               /\ bookings' = Append(bookings, Booked(reply'.payload)))]_vars

\* C17: a request for a known expert whose date is outside the window or a
\* closed day, or whose time_slot is not a default slot, gets 400 and adds
\* no booking.
C17_RuleViolationsRejected ==
    [][CreateReplied =>
        ((/\ reply'.payload.expert_id \in experts
          /\ \/ ~is_within_booking_window(reply'.payload.date, jst_today)
             \/ is_closed_day(reply'.payload.date)
             \/ ~InSeq(reply'.payload.time_slot, DEFAULT_SLOTS))
            => /\ reply'.status = 400
               /\ bookings' = bookings)]_vars

\* the slot is held by a non-cancelled booking of the expert on the date
Held(expert_id, target, slot) ==
    \E i \in 1..Len(bookings) :
        /\ bookings[i].expert_id = expert_id
        /\ bookings[i].date = target
        /\ bookings[i].time_slot = slot
        /\ bookings[i].status # "cancelled"

\* C18: every item of an availability response has an open date of the
\* booking window, offers exactly the default slots, lists as booked the
\* offered slots held by a non-cancelled booking, and counts the rest.
C18_AvailabilityConsistent ==
    [][(reply'.op = "get_expert_availability" /\ reply'.status = 200 /\ jst_today' = jst_today) =>
        \A i \in 1..Len(reply'.availability) :
            LET item == reply'.availability[i]
                IsHeld(slot) == Held(reply'.expert_id, item.date, slot)
            IN  /\ is_within_booking_window(item.date, jst_today)
                /\ ~is_closed_day(item.date)
                /\ item.slots = DEFAULT_SLOTS
                /\ item.booked_slots = SelectSeq(item.slots, IsHeld)
                /\ item.available_count = Len(item.slots) - Len(item.booked_slots)]_vars

(***************************************************************************)
(* The non-raising LLM wrapper (core/openai_client.py) and the guided chat *)
(* turn (services/chat_flow.py).                                           *)
(***************************************************************************)
\* what the LLM call produced: a JSON object with reply and question, a JSON
\* object that lacks them, JSON that is no object, text that is no JSON, an
\* HTTP error of the upstream, a missing Azure configuration
LlmOutcomes == {"object", "object_without_reply", "not_object", "bad_json", "http_error", "not_configured"}

\* the parameters the definition of chat_json_safe declares (lines 292-296)
ChatJsonSafeParameters == <<"prompt_id", "messages", "max_tokens">>

\* the call of run_guided_chat (line 425): two positional arguments and the
\* keywords max_tokens and temperature
GuidedChatPositional == 2
GuidedChatKeywords == {"max_tokens", "temperature"}

\* Python binds a call when every keyword names a parameter that no
\* positional argument has taken; otherwise the call raises TypeError
Binds(parameters, positional, keywords) ==
    /\ positional <= Len(parameters)
    /\ \A k \in keywords : \E i \in (positional + 1)..Len(parameters) : parameters[i] = k

\* chat_json_safe: the LlmResult for an outcome of chat_completion_json
chat_json_safe(outcome) ==
    IF outcome \in {"object", "object_without_reply"}
    THEN [ok |-> TRUE, is_dict |-> TRUE, error |-> "none"]
    ELSE [ok |-> FALSE, is_dict |-> FALSE,
          error |-> CASE outcome = "not_configured" -> "not_configured"
                      [] outcome = "http_error" -> "upstream_http_error"
                      [] OTHER -> "bad_json"]

MAX_STEP == 5

\* _build_fallback_response
_build_fallback_response(conversation) ==
    [reply |-> "FALLBACK_REPLY", step |-> conversation.step, done |-> conversation.step >= MAX_STEP]

\* lines 417-458: the response of a turn and whether it is the fallback
\* a mutant of GuidedResult: every turn answered, the step counted down
CountingDown(conversation, outcome) ==
    [used_fallback |-> FALSE,
     result |-> [reply |-> "llm", step |-> conversation.step - 1, done |-> FALSE]]

GuidedResult(conversation, outcome) ==
    IF ~Binds(ChatJsonSafeParameters, GuidedChatPositional, GuidedChatKeywords)
    THEN \* TypeError at the call, caught by the except of line 455
         [used_fallback |-> TRUE, result |-> _build_fallback_response(conversation)]
    ELSE IF ~chat_json_safe(outcome).ok \/ ~chat_json_safe(outcome).is_dict
    THEN [used_fallback |-> TRUE, result |-> _build_fallback_response(conversation)]
    ELSE IF outcome = "object_without_reply"
    THEN \* ChatTurnResponse(**raw) fails validation, caught by line 455
         [used_fallback |-> TRUE, result |-> _build_fallback_response(conversation)]
    ELSE LET next_step == IF conversation.step + 1 > MAX_STEP THEN MAX_STEP ELSE conversation.step + 1
         IN  [used_fallback |-> FALSE,
              result |-> [reply |-> "llm", step |-> next_step, done |-> next_step >= MAX_STEP]]

(***************************************************************************)
(* SpecChat: guided-chat turns.                                            *)
(***************************************************************************)
MaxConversations == 2
MaxTurns == 3

\* what the request carries: nothing, a selection without id, label or
\* text, a free-text message, a chosen option
PayloadKinds == {"empty", "blank_selection", "message", "choice"}

ChatInit ==
    /\ pc = "idle"
    /\ batch = <<>>
    /\ normalized = <<>>
    /\ StoreInit
    /\ ImportIdle
    /\ ReportIdle
    /\ ParseIdle
    /\ UploadIdle
    /\ BookingIdle
    /\ ChatIdle
    /\ BudgetIdle
    /\ MemoIdle
    /\ LaterIdle

\* _get_or_create_conversation: the id of the conversation of the turn;
\* conversation_id 0 stands for a request without conversation_id
ConversationOf(conversation_id) ==
    IF conversation_id \in 1..Len(conversations) THEN conversation_id ELSE Len(conversations) + 1

NewConversation == [step |-> 0, status |-> "in_progress"]

\* the tables after _get_or_create_conversation
WithConversation(conversation_id) ==
    IF conversation_id \in 1..Len(conversations)
    THEN [conversations |-> conversations, chat_messages |-> chat_messages]
    ELSE [conversations |-> Append(conversations, NewConversation),
          chat_messages |-> Append(chat_messages, <<>>)]

BadRequest == [status |-> 400]

\* POST /chat/guided
run_guided_chat(kind, conversation_id, outcome) ==
    IF kind = "empty"
    THEN /\ chat_reply' = BadRequest
         /\ UNCHANGED <<conversations, chat_messages>>
    ELSE LET cid == ConversationOf(conversation_id)
             tables == WithConversation(conversation_id)
             conversation == tables.conversations[cid]
             turn == GuidedResult(conversation, outcome)
             user_message == [role |-> "user", kind |-> kind]
             assistant_message == [role |-> "assistant", kind |-> "json"]
         IN  /\ Len(tables.conversations) <= MaxConversations
             /\ IF kind = "blank_selection"
                THEN /\ chat_reply' = BadRequest
                     /\ conversations' = tables.conversations
                     /\ chat_messages' = tables.chat_messages
                ELSE /\ Len(tables.chat_messages[cid]) < MaxTurns
                     /\ conversations' =
                            [tables.conversations EXCEPT ![cid] =
                                [step |-> IF turn.used_fallback THEN conversation.step ELSE turn.result.step,
                                 status |-> IF turn.result.done THEN "completed" ELSE "in_progress"]]
                     /\ chat_messages' =
                            [tables.chat_messages EXCEPT ![cid] =
                                IF turn.used_fallback
                                THEN Append(@, user_message)
                                ELSE Append(Append(@, user_message), assistant_message)]
                     /\ chat_reply' = [status |-> 200, conversation_id |-> cid, llm |-> outcome,
                                       reply |-> turn.result.reply, step |-> turn.result.step,
                                       done |-> turn.result.done]

RunGuidedChat ==
    /\ \E kind \in PayloadKinds, conversation_id \in 0..MaxConversations, outcome \in LlmOutcomes :
          run_guided_chat(kind, conversation_id, outcome)
    /\ UNCHANGED <<storeVars, alignVars, importVars, reportVars, parseVars, uploadVars, bookingVars, budgetVars, memoVars, laterVars>>

ChatNext == RunGuidedChat

SpecChat == ChatInit /\ [][ChatNext]_vars

\* a step that answers a turn of an accepted request
TurnAnswered == chat_reply'.status = 200 /\ chat_messages' # chat_messages

\* the step of the conversation before the turn (0 for a new conversation)
PriorStep ==
    IF chat_reply'.conversation_id \in 1..Len(conversations)
    THEN conversations[chat_reply'.conversation_id].step
    ELSE 0

CappedNext(step) == IF step + 1 > 5 THEN 5 ELSE step + 1

\* C19: a turn in which the LLM returned a valid JSON object returns the
\* prior step plus one, capped at 5 (so the k-th such turn returns
\* min(k, 5)), done exactly when that step is at least 5, and stores the
\* conversation with that step and with status completed exactly when done.
C19_StepServerManaged ==
    [][(TurnAnswered /\ chat_reply'.llm = "object") =>
        /\ chat_reply'.step = CappedNext(PriorStep)
        /\ chat_reply'.done = (chat_reply'.step >= 5)
        /\ conversations'[chat_reply'.conversation_id].step = chat_reply'.step
        /\ (conversations'[chat_reply'.conversation_id].status = "completed") = chat_reply'.done]_vars

\* the messages of the conversation before the turn
PriorMessages ==
    IF chat_reply'.conversation_id \in 1..Len(chat_messages)
    THEN chat_messages[chat_reply'.conversation_id]
    ELSE <<>>

\* C20: a turn whose LLM call failed returns the fallback reply, keeps the
\* step and adds the user message only; a turn whose LLM call succeeded
\* counts on from the stored step and adds the assistant message too.
C20_FallbackKeepsStep ==
    [][TurnAnswered =>
        IF chat_reply'.llm \in {"not_object", "bad_json", "http_error", "not_configured"}
        THEN /\ chat_reply'.reply = "FALLBACK_REPLY"
             /\ chat_reply'.step = PriorStep
             /\ conversations'[chat_reply'.conversation_id].step = PriorStep
             /\ Len(chat_messages'[chat_reply'.conversation_id]) = Len(PriorMessages) + 1
             /\ chat_messages'[chat_reply'.conversation_id][Len(PriorMessages) + 1].role = "user"
        ELSE (chat_reply'.llm = "object") =>
             /\ chat_reply'.reply # "FALLBACK_REPLY"
             /\ conversations'[chat_reply'.conversation_id].step = CappedNext(PriorStep)
             /\ Len(chat_messages'[chat_reply'.conversation_id]) = Len(PriorMessages) + 2]_vars

(***************************************************************************)
(* core/prompt_budget.py.  A text is its body of n characters, all ASCII   *)
(* or all non-ASCII, and the ellipsis that truncate_text may have put      *)
(* after it.                                                               *)
(***************************************************************************)
Text(kind, n) == [kind |-> kind, n |-> n, ellipsis |-> FALSE]

TextLen(text) == text.n + (IF text.ellipsis THEN 1 ELSE 0)

\* sum(1 for c in text if ord(c) > 127)
NonAscii(text) == (IF text.kind = "wide" THEN text.n ELSE 0) + (IF text.ellipsis THEN 1 ELSE 0)

\* estimate_tokens: int(est * 1.2) + 32 with est = n / 4, n / 3 or n / 2 by
\* the share of non-ASCII characters (below 0.2, below 0.6, otherwise)
estimate_tokens(text) ==
    IF TextLen(text) = 0 THEN 0
    ELSE IF 5 * NonAscii(text) < TextLen(text) THEN ((12 * TextLen(text)) \div 40) + 32
    ELSE IF 5 * NonAscii(text) < 3 * TextLen(text) THEN ((12 * TextLen(text)) \div 30) + 32
    ELSE ((12 * TextLen(text)) \div 20) + 32

\* truncate_text: text[: max_chars - 1] + the ellipsis when the text is longer
truncate_text(text, max_chars) ==
    IF max_chars <= 0 THEN Text("ascii", 0)
    ELSE IF TextLen(text) <= max_chars THEN text
    ELSE [kind |-> text.kind, n |-> max_chars - 1, ellipsis |-> TRUE]

RoleText(role) ==
    Text("ascii", CASE role = "system" -> 6 [] role = "user" -> 4 [] OTHER -> 9)

RECURSIVE messages_estimate_tokens(_)
messages_estimate_tokens(msgs) ==
    IF msgs = <<>> THEN 0
    ELSE estimate_tokens(RoleText(Head(msgs).role)) + estimate_tokens(Head(msgs).content)
           + messages_estimate_tokens(Tail(msgs))

\* seq[-keep_n:]
LastN(seq, keep_n) == IF Len(seq) <= keep_n THEN seq ELSE SubSeq(seq, Len(seq) - keep_n + 1, Len(seq))

\* seq[:1]
FirstOne(seq) == IF seq = <<>> THEN <<>> ELSE <<seq[1]>>

Truncated(msgs, max_chars) ==
    [i \in 1..Len(msgs) |-> [role |-> msgs[i].role, content |-> truncate_text(msgs[i].content, max_chars)]]

\* lines 167-177: the system message and the last user message cut to 4000
LastResort(system, capped) ==
    LET users == {i \in 1..Len(capped) : capped[i].role = "user"}
    IN  IF users = {} THEN system
        ELSE LET last_user == CHOOSE i \in users : \A j \in users : j <= i
             IN  system \o Truncated(<<capped[last_user]>>, 4000)

\* the loop of lines 148-151 over the keep_n values from index i on
RECURSIVE KeepRecent(_, _, _, _, _)
KeepRecent(system, capped, token_budget, keeps, i) ==
    IF i > Len(keeps)
    THEN IF messages_estimate_tokens(system \o Truncated(LastN(capped, 4), 6000)) <= token_budget
         THEN system \o Truncated(LastN(capped, 4), 6000)
         ELSE LastResort(system, capped)
    ELSE IF messages_estimate_tokens(system \o LastN(capped, keeps[i])) <= token_budget
         THEN system \o LastN(capped, keeps[i])
         ELSE KeepRecent(system, capped, token_budget, keeps, i + 1)

shrink_messages(msgs, token_budget) ==
    LET IsSystem(m) == m.role = "system"
        NotSystem(m) == m.role # "system"
        system == FirstOne(SelectSeq(msgs, IsSystem))
        capped == Truncated(SelectSeq(msgs, NotSystem), 20000)
    IN  IF msgs = <<>> THEN <<>>
        ELSE IF messages_estimate_tokens(system \o capped) <= token_budget THEN system \o capped
        ELSE KeepRecent(system, capped, token_budget, <<20, 12, 8, 6, 4>>, 1)

(***************************************************************************)
(* SpecBudget: one call of shrink_messages.                                *)
(***************************************************************************)
MaxPrompt == 5

\* "system prompt", a short question, three oversized texts
PromptMessages ==
    { [role |-> "system", content |-> Text("ascii", 13)],
      [role |-> "user", content |-> Text("ascii", 40)],
      [role |-> "user", content |-> Text("wide", 15000)],
      [role |-> "assistant", content |-> Text("wide", 7000)],
      [role |-> "assistant", content |-> Text("ascii", 30000)] }

TokenBudgets == {100, 2000, 5000, 12000, 110000}

BudgetInit ==
    /\ pc = "prompt"
    /\ batch = <<>>
    /\ normalized = <<>>
    /\ StoreInit
    /\ ImportIdle
    /\ ReportIdle
    /\ ParseIdle
    /\ UploadIdle
    /\ BookingIdle
    /\ ChatIdle
    /\ MemoIdle
    /\ LaterIdle
    /\ prompt \in UNION {[1..n -> PromptMessages] : n \in 0..MaxPrompt}
    /\ budget \in TokenBudgets
    /\ shrunk = <<>>

ShrinkMessages ==
    /\ pc = "prompt"
    /\ pc' = "shrunk"
    /\ shrunk' = shrink_messages(prompt, budget)
    /\ UNCHANGED <<prompt, budget, batch, normalized, storeVars, importVars, reportVars, parseVars,
                   uploadVars, bookingVars, chatVars, memoVars, laterVars>>

BudgetNext == ShrinkMessages

SpecBudget == BudgetInit /\ [][BudgetNext]_vars

HasSystem(msgs) == \E i \in 1..Len(msgs) : msgs[i].role = "system"

FirstSystem(msgs) == msgs[CHOOSE i \in 1..Len(msgs) : msgs[i].role = "system" /\ \A j \in 1..(i - 1) : msgs[j].role # "system"]

\* C21: for a message list with a system message, the returned list starts
\* with the first system message and its estimate is at most token_budget.
C21_ShrinkRespectsBudget ==
    (pc = "shrunk" /\ HasSystem(prompt)) =>
        /\ shrunk # <<>>
        /\ shrunk[1] = FirstSystem(prompt)
        /\ messages_estimate_tokens(shrunk) <= budget

(***************************************************************************)
(* SpecMemo: the consultation memo endpoints (api/conversations.py).       *)
(***************************************************************************)
MaxGenerated == 3

MemoConversations == {"conv1", "conv2"}

\* what generate_consultation_memo may return: (current_points, important_points)
GeneratedPoints ==
    {<<c, i>> : c \in {<<>>, <<"current-point">>, <<"other-point">>},
                i \in {<<>>, <<"important-point">>}}

\* json.dumps of a list of strings
Dumps(points) == [json |-> "list", items |-> points]

\* _parse_points: the first ten items of a stored list
_parse_points(raw) ==
    IF raw.json # "list" THEN <<raw>>
    ELSE IF Len(raw.items) <= 10 THEN raw.items ELSE SubSeq(raw.items, 1, 10)

\* conversation.memo: the rows of the conversation
MemoRows(table, conversation_id) ==
    {i \in 1..Len(table) : table[i].conversation_id = conversation_id}

MemoAlways(table, conversation_id) == TRUE

\* lines 123-124 and 187-188: memo is None
MemoMissing(table, conversation_id) == MemoRows(table, conversation_id) = {}

\* _build_and_save_memo: the table after the memo is written
_build_and_save_memo(table, conversation_id, points) ==
    IF MemoRows(table, conversation_id) = {}
    THEN Append(table, [conversation_id |-> conversation_id,
                        current_points |-> Dumps(points[1]),
                        important_points |-> Dumps(points[2])])
    ELSE [i \in 1..Len(table) |->
            IF i = CHOOSE j \in MemoRows(table, conversation_id) : TRUE
            THEN [table[i] EXCEPT !.current_points = Dumps(points[1]),
                                  !.important_points = Dumps(points[2])]
            ELSE table[i]]

MemoOf(table, conversation_id) == table[CHOOSE j \in MemoRows(table, conversation_id) : TRUE]

MemoResponse(op, conversation_id, table, calls) ==
    [op |-> op, status |-> 200, conversation_id |-> conversation_id, calls |-> calls,
     current_points |-> _parse_points(MemoOf(table, conversation_id).current_points),
     important_points |-> _parse_points(MemoOf(table, conversation_id).important_points)]

NotFound(op) == [op |-> op, status |-> 404]

\* the memo is built when missing, then returned (lines 123-131, 187-192)
MemoOrBuild(op, conversation_id, points) ==
    IF conversation_id \notin MemoConversations
    THEN /\ memo_reply' = NotFound(op)
         /\ UNCHANGED <<memos, generated>>
    ELSE IF MemoMissing(memos, conversation_id)
    THEN /\ generated < MaxGenerated
         /\ generated' = generated + 1
         /\ memos' = _build_and_save_memo(memos, conversation_id, points)
         /\ memo_reply' = MemoResponse(op, conversation_id, memos', 1)
    ELSE /\ memo_reply' = MemoResponse(op, conversation_id, memos, 0)
         /\ UNCHANGED <<memos, generated>>

\* GET /conversations/{conversation_id}/memo
get_consultation_memo(conversation_id, points) ==
    MemoOrBuild("get_consultation_memo", conversation_id, points)

\* POST /conversations/{conversation_id}/memo/refresh
refresh_consultation_memo(conversation_id, points) ==
    IF conversation_id \notin MemoConversations
    THEN /\ memo_reply' = NotFound("refresh_consultation_memo")
         /\ UNCHANGED <<memos, generated>>
    ELSE /\ generated < MaxGenerated
         /\ generated' = generated + 1
         /\ memos' = _build_and_save_memo(memos, conversation_id, points)
         /\ memo_reply' = MemoResponse("refresh_consultation_memo", conversation_id, memos', 1)

\* GET /conversations/{conversation_id}/report
get_conversation_report(conversation_id, points) ==
    MemoOrBuild("get_conversation_report", conversation_id, points)

MemoRequests == MemoConversations \cup {"unknown"}

GetConsultationMemo ==
    \E conversation_id \in MemoRequests, points \in GeneratedPoints :
        get_consultation_memo(conversation_id, points)

RefreshConsultationMemo ==
    \E conversation_id \in MemoRequests, points \in GeneratedPoints :
        refresh_consultation_memo(conversation_id, points)

GetConversationReport ==
    \E conversation_id \in MemoRequests, points \in GeneratedPoints :
        get_conversation_report(conversation_id, points)

MemoInit ==
    /\ pc = "idle"
    /\ batch = <<>>
    /\ normalized = <<>>
    /\ StoreInit
    /\ ImportIdle
    /\ ReportIdle
    /\ ParseIdle
    /\ UploadIdle
    /\ BookingIdle
    /\ ChatIdle
    /\ BudgetIdle
    /\ MemoIdle
    /\ LaterIdle

MemoNext ==
    /\ \/ GetConsultationMemo
       \/ RefreshConsultationMemo
       \/ GetConversationReport
    /\ UNCHANGED <<storeVars, alignVars, importVars, reportVars, parseVars, uploadVars, bookingVars,
                   chatVars, budgetVars, laterVars>>

SpecMemo == MemoInit /\ [][MemoNext]_vars

\* a step that answers GET /conversations/{id}/memo with 200
MemoGot == memo_reply'.op = "get_consultation_memo" /\ memo_reply'.status = 200

\* C22: a GET of the memo generates and stores it when the conversation has
\* none, and otherwise returns the stored points without a generator call
\* and without a write; a conversation never has two stored memos.
C22_MemoGeneratedOnce ==
    /\ [](\A c \in MemoConversations : Cardinality(MemoRows(memos, c)) <= 1)
    /\ [][MemoGot =>
            IF MemoRows(memos, memo_reply'.conversation_id) = {}
            THEN /\ generated' = generated + 1
                 /\ Cardinality(MemoRows(memos', memo_reply'.conversation_id)) = 1
                 /\ Len(memos') = Len(memos) + 1
                 /\ memo_reply'.current_points = MemoOf(memos', memo_reply'.conversation_id).current_points.items
            ELSE /\ generated' = generated
                 /\ memos' = memos
                 /\ memo_reply'.current_points = MemoOf(memos, memo_reply'.conversation_id).current_points.items
                 /\ memo_reply'.important_points = MemoOf(memos, memo_reply'.conversation_id).important_points.items]_vars

\* a GET answered from a memo that an earlier request generated
C22_Witness ==
    /\ memo_reply.op = "get_consultation_memo"
    /\ memo_reply.status = 200
    /\ memo_reply.calls = 0
    /\ generated >= 1
    /\ memo_reply.current_points # <<>>

(***************************************************************************)
(* The pending-label scan of financial_statement_service.parse_financial_pdf *)
(***************************************************************************)
\* the field label_map gives to a label
ServiceFieldOf(label) ==
    ServiceLabelMap[CHOOSE i \in DOMAIN ServiceLabelMap : ServiceLabelMap[i][1] = label][2]

ServiceLabels == {ServiceLabelMap[i][1] : i \in DOMAIN ServiceLabelMap}

\* the labels of label_map written on a line
LabelsOn(text) == {text[i] : i \in 1..Len(text)} \cap ServiceLabels

\* a line that carries a label of label_map, or a variant of one
CarriesLabel(text) == \E i \in 1..Len(text) : ServiceLabelsIn(text[i]) # {}

ServiceParsed == pc = "parsed" /\ Extracts /\ extracted.parser = "financial_statement_service"

\* C23: the scan awaits a number for f exactly after a line that carries the
\* label of f and no number; the first later line with a number and no label
\* gives its number to f; a number on a line that carries a label never goes
\* to the awaited field; and while nothing is awaited a line with a number
\* and no label changes no field.
C23_PendingLabelStateMachine ==
    ServiceParsed =>
        LET lines == StrippedLines(pdf)
        IN  /\ \A label \in ServiceLabels :
                (/\ Len(lines) = 2
                 /\ LabelsOn(lines[1]) = {label}
                 /\ ServiceParseNumber(lines[1]) = Null
                 /\ ~CarriesLabel(lines[2])
                 /\ ServiceParseNumber(lines[2]) # Null)
                    => extracted.result[ServiceFieldOf(label)] = ServiceParseNumber(lines[2])
            /\ \A label \in ServiceLabels :
                (/\ Len(lines) = 2
                 /\ LabelsOn(lines[1]) = {label}
                 /\ ServiceParseNumber(lines[1]) = Null
                 /\ CarriesLabel(lines[2])
                 /\ ServiceFieldOf(label) \notin {ServiceFieldOf(l) : l \in LabelsOn(lines[2])})
                    => extracted.result[ServiceFieldOf(label)] = Absent
            /\ (\A i \in 1..Len(lines) : ~CarriesLabel(lines[i]))
                    => \A k \in ServiceKeys : extracted.result[k] = Absent

\* 純資産合計 alone on a line, then 500: the number went to total_assets
C23_NetAssetsAwaitedAsTotalAssets ==
    /\ ServiceParsed
    /\ pdf = <<<<"junshisan_goukei">>, <<"5", "0", "0">>>>
    /\ extracted.result["equity"] = Absent
    /\ extracted.result["total_assets"] = 500

\* what the parser that ran returns for a PDF of the given lines alone
ParsedAlone(lines) ==
    IF extracted.parser = "financial_statement_service" THEN ServiceParseFinancialPdf(lines)
    ELSE parse_financial_statement_pdf(lines, Null)

\* the fields that parse_financial_pdf and _parse_metrics both fill
SharedFields == (ServiceKeys \cap ParserFields)

\* C24: borrowings is the sum of the numbers of all lines that match a
\* borrowing label, and every other field is the number of the first line in
\* document order that matches its label: a later match never overwrites it.
C24_RepeatedLabels ==
    (/\ pc = "parsed"
     /\ Extracts
     /\ extracted.parser \in {"financial_statement_service", "financial_statement_parser"}
     /\ Len(pdf) = 2)
        => /\ \A f \in SharedFields :
                (/\ ParsedAlone(<<pdf[1]>>)[f] # Absent
                 /\ ParsedAlone(<<pdf[2]>>)[f] # Absent)
                    => extracted.result[f] = ParsedAlone(<<pdf[1]>>)[f]
           /\ (/\ extracted.parser = "financial_statement_service"
               /\ ParsedAlone(<<pdf[1]>>)["borrowings"] # Absent
               /\ ParsedAlone(<<pdf[2]>>)["borrowings"] # Absent)
                    => extracted.result["borrowings"] =
                          ParsedAlone(<<pdf[1]>>)["borrowings"] + ParsedAlone(<<pdf[2]>>)["borrowings"]

NearMissLabels == {"zeibikimae_touki_junrieki", "hitokabu_atari_no_touki_junrieki"}

\* C25: net_income is never taken from a line labelled 税引前当期純利益 or
\* 一株当たりの当期純利益, neither from the line itself nor from the number
\* that follows a label-only line: a document without a 当期純利益 line of
\* its own yields no net_income.
C25_NearMissLabelsRejected ==
    (/\ pc = "parsed"
     /\ Extracts
     /\ \E l \in 1..Len(pdf) : \E i \in 1..Len(pdf[l]) : pdf[l][i] \in NearMissLabels
     /\ \A l \in 1..Len(pdf) : \A i \in 1..Len(pdf[l]) : pdf[l][i] # "touki_junrieki")
        => ParsedField("net_income") = Absent

\* the pages of the PDF that extract_text() can read, in page order
ReadablePages ==
    [i \in 1..(Len(pdf) - 1) |-> IF i < unreadable THEN pdf[i] ELSE pdf[i + 1]]

\* C28: when extract_text() raises on one page of a PDF of several pages, the
\* parser returns the metrics of the lines of all other pages, in page order.
C28_UnreadablePageSkipped ==
    (pc = "parsed" /\ opens /\ unreadable # 0 /\ Len(pdf) >= 2)
        => CASE extracted.parser = "financial_statement_service" ->
                    extracted.result = ServiceParseFinancialPdf(ReadablePages)
             [] extracted.parser = "pdf_financial_parser" ->
                    extracted.result = PdfParseFinancialPdf(ReadablePages, utcnow)
             [] OTHER ->
                    \A f \in ParserFields \ {"fiscal_year"} :
                        extracted.result[f] = parse_financial_statement_pdf(ReadablePages, Null)[f]

(***************************************************************************)
(* The derivation of parse_local_benchmark (financial_import.py 149-159).  *)
(***************************************************************************)
Missing(v) == v \in {Absent, Null}

\* the entries of data_by_year before the derivation loop, lines 139-147
Collected ==
    LET year_cols == _find_year_columns(content)
    IN  CollectEntries(content, year_cols, YearValues(content, year_cols, utcnow),
                       _find_label_rows(content))

\* C27: in the records of parse_local_benchmark current_assets is derived as
\* cash_and_deposits + receivables + inventory only when it is absent and a
\* component is present, current_liabilities becomes payables only when
\* payables is present and total_liabilities absent, no other field is
\* synthesized, and a field without a source value stays absent, never 0.
C27_DerivationFillsOnlyMissing ==
    (pc = "batch" /\ batch # <<>>) =>
        \A i \in 1..Len(batch) :
            LET before == Collected[i]
                after == batch[i]
                components == {before.cash_and_deposits, before.receivables, before.inventory}
            IN  /\ \A f \in EntryFields \ {"current_assets", "current_liabilities"} :
                      after[f] = before[f]
                /\ IF Missing(before.current_assets) /\ \E c \in components : ~Missing(c)
                   THEN after.current_assets =
                          OrZero(before.cash_and_deposits) + OrZero(before.receivables)
                              + OrZero(before.inventory)
                   ELSE Missing(after.current_assets) = Missing(before.current_assets)
                /\ IF /\ Missing(before.current_liabilities)
                      /\ ~Missing(before.payables)
                      /\ Missing(before.total_liabilities)
                   THEN after.current_liabilities = before.payables
                   ELSE Missing(after.current_liabilities) = Missing(before.current_liabilities)

(***************************************************************************)
(* SpecLadder: one raw value through one scoring ladder: the score_*       *)
(* functions of company_report.py and _scale_positive / _scale_inverse of  *)
(* reports.py with the threshold lists of lines 75-81 and 104-114.         *)
(***************************************************************************)
\* a >= b and a > b for two floats kept as ratios with positive denominators
RatioAtLeast(a, b) == a.num * b.den >= b.num * a.den
RatioAbove(a, b) == a.num * b.den > b.num * a.den

Largest(S) == CHOOSE x \in S : \A y \in S : y <= x

\* reports._scale_positive, lines 49-56: the loop assigns score = idx for
\* every threshold met, idx counting from 2, so the last one met wins
_scale_positive(value, thresholds) ==
    LET met == {i \in 1..Len(thresholds) : RatioAtLeast(value, thresholds[i])}
        score == IF met = {} THEN 1 ELSE Largest(met) + 1
    IN  IF IsNone(value) THEN 3
        ELSE IF score < 5 THEN score ELSE 5

\* reports._scale_inverse, lines 59-66: the loop assigns score = 5 - idx for
\* every threshold exceeded, idx counting from 1, so the last one exceeded wins
_scale_inverse(value, thresholds) ==
    LET exceeded == {i \in 1..Len(thresholds) : RatioAbove(value, thresholds[i])}
        score == IF exceeded = {} THEN 5 ELSE 5 - Largest(exceeded)
    IN  IF IsNone(value) THEN 3
        ELSE IF score > 5 THEN 5 ELSE IF score < 1 THEN 1 ELSE score

ReportLadders == {"score_sales_growth", "score_profit_margin", "score_debt_years",
                  "score_working_capital_months", "score_equity_ratio"}

PositiveLadders == {"operating_margin", "labor_productivity", "equity_ratio", "sales_growth_rate"}

InverseLadders == {"ebitda_debt_ratio", "operating_working_capital_period"}

Ladders == ReportLadders \cup PositiveLadders \cup InverseLadders

\* the thresholds of each ladder in the order the source lists them
Thresholds(ladder) ==
    CASE ladder = "score_sales_growth" -> <<Ratio(10, 1), Ratio(5, 1), Ratio(0, 1), Ratio(0 - 10, 1)>>
      [] ladder = "score_profit_margin" -> <<Ratio(10, 1), Ratio(5, 1), Ratio(0, 1), Ratio(0 - 5, 1)>>
      [] ladder = "score_debt_years" -> <<Ratio(0, 1), Ratio(3, 1), Ratio(5, 1), Ratio(7, 1)>>
      [] ladder = "score_working_capital_months" -> <<Ratio(1, 1), Ratio(2, 1), Ratio(3, 1), Ratio(4, 1)>>
      [] ladder = "score_equity_ratio" -> <<Ratio(30, 1), Ratio(20, 1), Ratio(10, 1), Ratio(0, 1)>>
      [] ladder = "operating_margin" -> <<Ratio(0, 1), Ratio(3, 100), Ratio(6, 100), Ratio(10, 100)>>
      [] ladder = "labor_productivity" ->
            <<Ratio(500000, 1), Ratio(1000000, 1), Ratio(1500000, 1), Ratio(2000000, 1)>>
      [] ladder = "equity_ratio" -> <<Ratio(10, 100), Ratio(20, 100), Ratio(40, 100), Ratio(60, 100)>>
      [] ladder = "sales_growth_rate" -> <<Ratio(0 - 5, 100), Ratio(0, 1), Ratio(5, 100), Ratio(10, 100)>>
      [] ladder = "ebitda_debt_ratio" -> <<Ratio(6, 1), Ratio(4, 1), Ratio(2, 1), Ratio(1, 1)>>
      [] ladder = "operating_working_capital_period" -> <<Ratio(8, 1), Ratio(6, 1), Ratio(4, 1), Ratio(2, 1)>>

\* the score the code gives a raw value on a ladder
LadderScore(ladder, value) ==
    CASE ladder = "score_sales_growth" -> score_sales_growth(value)
      [] ladder = "score_profit_margin" -> score_profit_margin(value)
      [] ladder = "score_debt_years" -> score_debt_years(value, Null, Null)
      [] ladder = "score_working_capital_months" -> score_working_capital_months(value)
      [] ladder = "score_equity_ratio" -> score_equity_ratio(value)
      [] ladder \in PositiveLadders -> _scale_positive(value, Thresholds(ladder))
      [] ladder \in InverseLadders -> _scale_inverse(value, Thresholds(ladder))

\* raw values in steps of one half, in steps of one hundredth, and in yen
HalfSteps == {Ratio(n, 2) : n \in (0 - 24)..64}
HundredthSteps == {Ratio(n, 100) : n \in (0 - 10)..70}
YenSteps == {Ratio(n * 250000, 1) : n \in 0..9}

RawValues(ladder) ==
    IF ladder = "labor_productivity" THEN YenSteps
    ELSE IF ladder \in PositiveLadders THEN HundredthSteps
    ELSE HalfSteps

LadderInit ==
    /\ pc = "raw"
    /\ \E ladder \in Ladders : \E value \in RawValues(ladder) :
          scored = [ladder |-> ladder, value |-> value, score |-> 0]
    /\ batch = <<>>
    /\ normalized = <<>>
    /\ StoreInit
    /\ ImportIdle
    /\ ReportIdle
    /\ ParseIdle
    /\ UploadIdle
    /\ BookingIdle
    /\ ChatIdle
    /\ BudgetIdle
    /\ MemoIdle
    /\ RaceIdle

ScoreLadder ==
    /\ pc = "raw"
    /\ pc' = "scored"
    /\ scored' = [scored EXCEPT !.score = LadderScore(scored.ladder, scored.value)]
    /\ UNCHANGED <<batch, normalized, storeVars, importVars, reportVars, parseVars, uploadVars,
                   bookingVars, chatVars, budgetVars, memoVars, raceVars>>

LadderNext == ScoreLadder

SpecLadder == LadderInit /\ [][LadderNext]_vars

\* the ladders on which a larger raw value is better
AscendingLadders ==
    {"score_sales_growth", "score_profit_margin", "score_equity_ratio"} \cup PositiveLadders

\* C26: every ladder has 4 breakpoints and 5 buckets; the score of a raw
\* value is 1 plus the number of breakpoints it meets (ascending ladders) or
\* does not exceed (descending ladders), so a value equal to a breakpoint
\* gets the better of the two adjacent buckets.
C26_LadderEvaluation ==
    pc = "scored" =>
        LET breakpoints == Thresholds(scored.ladder)
            passed ==
                {i \in 1..Len(breakpoints) :
                    IF scored.ladder \in AscendingLadders
                    THEN RatioAtLeast(scored.value, breakpoints[i])
                    ELSE ~RatioAbove(scored.value, breakpoints[i])}
        IN  /\ Len(breakpoints) = 4
            /\ scored.score = 1 + Cardinality(passed)

(***************************************************************************)
(* SpecRace: POST /consultations requests that run concurrently, each in   *)
(* its own database session, and PATCH /admin/bookings/{id} between them.  *)
(* A create request takes two steps: the lookups of lines 177-226, and the *)
(* INSERT and commit of lines 243-249, where the database checks           *)
(* uq_consultation_booking_slot.                                           *)
(***************************************************************************)
MaxInflight == 2

\* an open day with seeded slots, and a Saturday
RaceDates == {25, 27}

RaceSlots == {SeedSlots[1], SeedSlots[2]}

RacePayloads ==
    [expert_id : {SeededExperts[1]}, date : RaceDates, time_slot : RaceSlots, conversation : {"none"}]

\* the tables after the first GET /experts on an empty database
RaceInit ==
    /\ pc = "idle"
    /\ batch = <<>>
    /\ normalized = <<>>
    /\ StoreInit
    /\ ImportIdle
    /\ ReportIdle
    /\ ParseIdle
    /\ UploadIdle
    /\ ChatIdle
    /\ BudgetIdle
    /\ MemoIdle
    /\ LadderIdle
    /\ jst_today = BaseToday
    /\ experts = _seed_experts_if_needed({}, <<>>, BaseToday).experts
    /\ availabilities = _seed_experts_if_needed({}, <<>>, BaseToday).availabilities
    /\ bookings = <<>>
    /\ reply = NoReply
    /\ inflight = <<>>

\* lines 177-226: the response of a request that does not reach the INSERT,
\* 0 for a request that does
LookupStatus(payload) ==
    IF payload.expert_id \notin experts THEN 404
    ELSE IF ~is_within_booking_window(payload.date, jst_today) \/ is_closed_day(payload.date) THEN 400
    ELSE IF valid_slots(availabilities, payload.expert_id, payload.date) = <<>> THEN 400
    ELSE IF ~InSeq(payload.time_slot, valid_slots(availabilities, payload.expert_id, payload.date)) THEN 400
    ELSE IF existing(bookings, payload) THEN 409
    ELSE 0

\* lines 177-226 of one request
LookupSlot ==
    \E payload \in RacePayloads :
        /\ IF LookupStatus(payload) = 0
           THEN /\ Len(inflight) < MaxInflight
                /\ inflight' = Append(inflight, payload)
                /\ UNCHANGED reply
           ELSE /\ reply' = Response(payload, LookupStatus(payload))
                /\ UNCHANGED inflight
        /\ UNCHANGED <<jst_today, experts, availabilities, bookings>>

Without(seq, i) == SubSeq(seq, 1, i - 1) \o SubSeq(seq, i + 1, Len(seq))

\* lines 243-249 of one request: db.commit(), IntegrityError answered with 409
CommitBooking ==
    \E i \in 1..Len(inflight) :
        /\ inflight' = Without(inflight, i)
        /\ IF uq_consultation_booking_slot(bookings, inflight[i])
           THEN /\ Len(bookings) < MaxBookings
                /\ bookings' = Append(bookings, Booked(inflight[i]))
                /\ reply' = Response(inflight[i], 200)
           ELSE /\ reply' = [Response(inflight[i], 409) EXCEPT !.op = "IntegrityError"]
                /\ UNCHANGED bookings
        /\ UNCHANGED <<jst_today, experts, availabilities>>

\* PATCH /admin/bookings/{booking_id} with a status
ChangeStatus == UpdateBooking /\ UNCHANGED inflight

RaceNext ==
    /\ \/ LookupSlot
       \/ CommitBooking
       \/ ChangeStatus
    /\ UNCHANGED <<storeVars, alignVars, importVars, reportVars, parseVars, uploadVars, chatVars,
                   budgetVars, memoVars, ladderVars>>

SpecRace == RaceInit /\ [][RaceNext]_vars

SameSlot(a, b) == a.expert_id = b.expert_id /\ a.date = b.date /\ a.time_slot = b.time_slot

\* C29: whatever the interleaving of concurrent POST /consultations requests
\* and of status changes by the administrator, cancelled bookings set back
\* to pending, confirmed or done included, an (expert_id, date, time_slot)
\* never has two bookings whose status is not cancelled.
C29_AtMostOneActiveBooking ==
    \A i, j \in 1..Len(bookings) :
        (i # j /\ SameSlot(bookings[i], bookings[j]))
            => bookings[i].status = "cancelled" \/ bookings[j].status = "cancelled"

\* C29 witness: two requests for one slot had both passed the lookup while
\* the slot was free or cancelled; one was committed, the administrator set
\* its booking from cancelled back to confirmed, and the commit of the other
\* request failed on the unique constraint.
C29_Witness ==
    /\ reply.op = "IntegrityError"
    /\ reply.status = 409
    /\ \E i \in 1..Len(bookings) :
          SameSlot(bookings[i], reply.payload) /\ bookings[i].status = "confirmed"
    /\ \E k \in 1..Len(inflight) : SameSlot(inflight[k], reply.payload)

(***************************************************************************)
(* SpecTurns: guided-chat requests that carry a free-text message or       *)
(* nothing, with every outcome of the LLM call.                            *)
(***************************************************************************)
SendMessage ==
    /\ \E kind \in {"empty", "message"}, conversation_id \in 0..MaxConversations,
          outcome \in LlmOutcomes :
            run_guided_chat(kind, conversation_id, outcome)
    /\ UNCHANGED <<storeVars, alignVars, importVars, reportVars, parseVars, uploadVars, bookingVars,
                   budgetVars, memoVars, laterVars>>

TurnsNext == SendMessage

SpecTurns == ChatInit /\ [][TurnsNext]_vars

====
